---- MODULE Spec2Model ----
(***************************************************************************)
(* A model of tirs, the PC side of the DUSB calculator link protocol:      *)
(*   - raw packets            (src/src/packet/raw.rs, enum RawPackets)     *)
(*   - virtual packets        (src/src/packet/vtl.rs, VirtualPacket)       *)
(*   - the session controller (src/src/main.rs, Calculator)                *)
(*                                                                         *)
(* The calculator is the environment: whenever the PC blocks in            *)
(* RawPackets::receive it hands over any raw packet of its menu.           *)
(* A panic (slice out of range, unwrap, todo!, chunks(0)) ends the process *)
(* and is modelled as the outcome "panic"; an Err(..) returned through `?` *)
(* is the outcome "err" and leaves the session usable.                     *)
(*                                                                         *)
(* src/src/dusb.rs holds an older draft of the same layers (read,          *)
(* send_data, read_acknowledge, write_buf_size_alloc).  Its read() calls   *)
(* ticables::cable_read, which exists only inside a comment, and no        *)
(* Calculator operation calls into it; it is not part of this model.       *)
(***************************************************************************)
EXTENDS Integers, Sequences, FiniteSets, TLC

VARIABLES
    max_raw_packet_size,  \* Calculator.max_raw_packet_size (main.rs:30)
    alive,                \* a Calculator exists (Calculator::new returned Ok)
    op,                   \* the session operation in progress, with its arguments
    stage,                \* which statement of that operation is running
    pc,                   \* the RawPackets::receive call the PC is blocked in
    packets,              \* VirtualPacket::send: raw packets not yet acknowledged
    depth,                \* wait_for_acknowledge: nested calls below the first
    bytes,                \* receive_bytes: the accumulator
    ret,                  \* what VirtualPacket::send or ::receive returned
    variables,            \* request_directory: the accumulator
    result,               \* what the last finished operation returned
    log,                  \* raw packets sent (tx) and received (rx) by the current
                          \* negotiation, VirtualPacket::send or ::receive
    vlog,                 \* virtual packets sent and received by the operation
    dev,                  \* calculator: fragments of the message it is sending
    ops,                  \* operations started so far
    buffer,               \* Calculator.buffer (main.rs:31), the read-ahead buffer
    t_in,                 \* codec check: the input
    t_wire,               \* codec check: frames written to the transport
    t_acc,                \* codec check: receive_bytes' accumulator
    t_out,                \* codec check: what VirtualPacket::receive sliced
    t_pc                  \* codec check: position

svars == <<max_raw_packet_size, alive, op, stage, pc, packets, depth, bytes,
           ret, variables, result, log, vlog, dev, ops, buffer>>
tvars == <<t_in, t_wire, t_acc, t_out, t_pc>>
vars == <<max_raw_packet_size, alive, op, stage, pc, packets, depth, bytes,
          ret, variables, result, log, vlog, dev, ops, buffer,
          t_in, t_wire, t_acc, t_out, t_pc>>

----------------------------------------------------------------------------
(* Bounds of the model *)

MaxLen == 13          \* longest logical payload of the codec check
MaxM == 4             \* largest max raw packet size of the codec check
MaxOps == 1           \* operations per session after Calculator::new
MaxBufReq == 2        \* BufferSizeRequests the calculator issues during one wait
MaxMsgs == 4          \* virtual packets the calculator sends during one operation
DevChunk == 4         \* fragment size of a calculator that fragments its messages

----------------------------------------------------------------------------
(* Integers as bytes *)

Min(a, b) == IF a < b THEN a ELSE b

\* u32::to_be_bytes of (n as u32), for the n < 2^31 that TLC can represent
U32BE(n) ==
    <<(n \div 16777216) % 256, (n \div 65536) % 256, (n \div 256) % 256, n % 256>>

\* u16::to_be_bytes of (n as u16)
U16BE(n) ==
    LET m == n % 65536
    IN  <<m \div 256, m % 256>>

\* util.rs: defined on slices of exactly 4 (2) bytes, panics on any other
u32_from_bytes(b) == b[1] * 16777216 + b[2] * 65536 + b[3] * 256 + b[4]

u16_from_bytes(b) == b[1] * 256 + b[2]

\* Rust's &v[a..b] with 0-based a, b: defined iff a <= b <= len
SliceOk(v, a, b) == a <= b /\ b <= Len(v)

Slice(v, a, b) == SubSeq(v, a + 1, b)

RECURSIVE Concat(_)
Concat(ss) == IF ss = <<>> THEN <<>> ELSE Head(ss) \o Concat(Tail(ss))

----------------------------------------------------------------------------
(* Outcomes of fallible code: Ok(v), Err(e) through `?`, or a panic *)

Ok(v) == [tag |-> "ok", v |-> v]
Err(e) == [tag |-> "err", v |-> e]
Panic == [tag |-> "panic", v |-> "panic"]
None == [tag |-> "none", v |-> "none"]

IoError == [e |-> "io"]
InvalidPayload == [e |-> "InvalidPayload"]
RawUnknownPacketKindError(x) == [e |-> "raw::UnknownPacketKindError", code |-> x]
RawWrongPacketKind(expected, received) ==
    [e |-> "raw::WrongPacketKind", expected |-> expected, received |-> received]
UnknownPacketKindError(k) == [e |-> "vtl::UnknownPacketKindError", code |-> k]
WrongPacketKind(expected, received) ==
    [e |-> "vtl::WrongPacketKind", expected |-> expected, received |-> received]
CursorError == [e |-> "io::UnexpectedEof"]
UnknownParameterKindError(id) == [e |-> "UnknownParameterKindError", code |-> id]
\* the error a DeviceError is when returned through `?`
DeviceError(code) == [e |-> "DeviceError", code |-> code]

----------------------------------------------------------------------------
(* Raw packets: raw.rs, enum RawPackets *)

RawPacket(kind, val, payload) == [kind |-> kind, val |-> val, payload |-> payload]
RequestBufSize(size) == RawPacket("RequestBufSize", size, <<>>)
RespondBufSize(size) == RawPacket("RespondBufSize", size, <<>>)
VirtualData(payload) == RawPacket("VirtualData", 0, payload)
FinalVirtData(payload) == RawPacket("FinalVirtData", 0, payload)
VirtualDataAcknowledge(x) == RawPacket("VirtualDataAcknowledge", x, <<>>)

\* RawPackets::kind
RawKind(p) ==
    CASE p.kind = "RequestBufSize" -> "BufSizeReq"
      [] p.kind = "RespondBufSize" -> "BufSizeAlloc"
      [] p.kind = "VirtualData" -> "VirtData"
      [] p.kind = "FinalVirtData" -> "VirtDataLast"
      [] p.kind = "VirtualDataAcknowledge" -> "VirtDataAck"

\* RawPacketKind as u8
RawKindId(k) ==
    CASE k = "BufSizeReq" -> 1
      [] k = "BufSizeAlloc" -> 2
      [] k = "VirtData" -> 3
      [] k = "VirtDataLast" -> 4
      [] k = "VirtDataAck" -> 5

\* a send whose length field counts the 5 bytes of the header too
RawSendBytesGross(p) ==
    LET payload == CASE p.kind = "RequestBufSize" -> U32BE(p.val)
                     [] p.kind = "RespondBufSize" -> U32BE(p.val)
                     [] p.kind = "VirtualData" -> p.payload
                     [] p.kind = "FinalVirtData" -> p.payload
                     [] p.kind = "VirtualDataAcknowledge" -> U16BE(p.val)
    IN  U32BE(Len(payload) + 5) \o <<RawKindId(RawKind(p))>> \o payload

\* RawPackets::send: the bytes handed to Calculator::send
RawSendBytes(p) ==
    LET payload == CASE p.kind = "RequestBufSize" -> U32BE(p.val)
                     [] p.kind = "RespondBufSize" -> U32BE(p.val)
                     [] p.kind = "VirtualData" -> p.payload
                     [] p.kind = "FinalVirtData" -> p.payload
                     [] p.kind = "VirtualDataAcknowledge" -> U16BE(p.val)
    IN  U32BE(Len(payload)) \o <<RawKindId(RawKind(p))>> \o payload

\* a from_payload whose error forgets the kind byte it met
RawFromPayloadForgetful(kind, payload) ==
    CASE kind = 1 -> IF SliceOk(payload, 0, 4)
                     THEN Ok(RequestBufSize(u32_from_bytes(Slice(payload, 0, 4))))
                     ELSE Panic
      [] kind = 2 -> IF SliceOk(payload, 0, 4)
                     THEN Ok(RespondBufSize(u32_from_bytes(Slice(payload, 0, 4))))
                     ELSE Panic
      [] kind = 3 -> Ok(VirtualData(payload))
      [] kind = 4 -> Ok(FinalVirtData(payload))
      [] kind = 5 -> IF SliceOk(payload, 0, 2)
                     THEN Ok(VirtualDataAcknowledge(u16_from_bytes(Slice(payload, 0, 2))))
                     ELSE Panic
      [] OTHER -> Err(RawUnknownPacketKindError(0))

\* RawPackets::from_payload
RawFromPayload(kind, payload) ==
    CASE kind = 1 -> IF SliceOk(payload, 0, 4)
                     THEN Ok(RequestBufSize(u32_from_bytes(Slice(payload, 0, 4))))
                     ELSE Panic
      [] kind = 2 -> IF SliceOk(payload, 0, 4)
                     THEN Ok(RespondBufSize(u32_from_bytes(Slice(payload, 0, 4))))
                     ELSE Panic
      [] kind = 3 -> Ok(VirtualData(payload))
      [] kind = 4 -> Ok(FinalVirtData(payload))
      [] kind = 5 -> IF SliceOk(payload, 0, 2)
                     THEN Ok(VirtualDataAcknowledge(u16_from_bytes(Slice(payload, 0, 2))))
                     ELSE Panic
      [] OTHER -> Err(RawUnknownPacketKindError(kind))

\* RawPackets::receive on the bytes of the transport: 4 bytes of length, 1 of kind,
\* then exactly `length` bytes of payload; read_exact fails when they never come
RawReceive(stream) ==
    IF Len(stream) < 5 THEN Err(IoError)
    ELSE LET size == u32_from_bytes(Slice(stream, 0, 4))
             kind == stream[5]
         IN  IF Len(stream) < 5 + size THEN Err(IoError)
             ELSE RawFromPayload(kind, Slice(stream, 5, 5 + size))

\* RawPackets::receive_exact
receive_exact(kind, r) ==
    IF r.tag # "ok" THEN r
    ELSE IF RawKind(r.v) # kind THEN Err(RawWrongPacketKind(kind, RawKind(r.v)))
    ELSE r

----------------------------------------------------------------------------
(* Virtual packets: vtl.rs *)

\* VirtualPacketKind as u16 (vtl.rs:24-34)
SetModeId == 1
ParameterRequestId == 7
ParameterResponseId == 8
DirectoryRequestId == 9
VariableHeaderId == 10
RequestVariableId == 12
VariableContentsId == 13
SetModeAcknowledgeId == 18
WaitId == 47872
EndOfTransmissionId == 56576
ErrorId == 60928

Catalogue == {SetModeId, ParameterRequestId, ParameterResponseId, DirectoryRequestId,
              VariableHeaderId, RequestVariableId, VariableContentsId,
              SetModeAcknowledgeId, WaitId, EndOfTransmissionId, ErrorId}

\* VirtualPacket::RequestToSend, which Calculator::send_variable builds: the enum
\* of vtl.rs has no such variant, and into_payload no arm for it
RequestToSendId == 11

\* VirtualPacket::DataAcknowledge, the application-level acknowledgment that
\* Calculator::send_variable expects: the enum of vtl.rs has no such variant
DataAcknowledgeId == 43520

\* VirtualPacketKind::from_repr
VirtualPacketKind_from_repr(k) == IF k \in Catalogue THEN Ok(k) ELSE None

\* DeviceError codes (vtl.rs:39-70)
DeviceErrorCodes == {4, 6, 8, 9, 12, 13, 14, 17, 18, 28, 29, 34, 41, 43, 52}

\* A VirtualPacket value: its kind and its typed payload
VirtualPacket(kind, body) == [kind |-> kind, body |-> body]

RECURSIVE U16List(_)
U16List(ids) == IF ids = <<>> THEN <<>> ELSE U16BE(Head(ids)) \o U16List(Tail(ids))

\* into_payload, RequestVariable: the specified attributes (vtl.rs:108-116)
RECURSIVE SpecifiedAttributes(_)
SpecifiedAttributes(attrs) ==
    IF attrs = <<>> THEN <<>>
    ELSE U16BE(Head(attrs).id) \o U16BE(Len(Head(attrs).value)) \o Head(attrs).value
         \o SpecifiedAttributes(Tail(attrs))

\* slice::chunks_exact(n): the bytes after the last full chunk are dropped
RECURSIVE ChunksExact(_, _)
ChunksExact(b, n) ==
    IF Len(b) < n THEN <<>>
    ELSE <<SubSeq(b, 1, n)>> \o ChunksExact(SubSeq(b, n + 1, Len(b)), n)

\* slice::chunks(n) for n > 0 (it panics for n = 0)
RECURSIVE Chunks(_, _)
Chunks(b, n) ==
    IF Len(b) = 0 THEN <<>>
    ELSE IF Len(b) <= n THEN <<b>>
    ELSE <<SubSeq(b, 1, n)>> \o Chunks(SubSeq(b, n + 1, Len(b)), n)

\* an into_raw_packets whose chunks are one byte too long
into_raw_packets_wide(kind, contents, max_size) ==
    LET stream == U32BE(Len(contents)) \o U16BE(kind) \o contents
        chunks == Chunks(stream, max_size + 1)
    IN  [i \in 1..Len(chunks) |->
            IF i = Len(chunks) THEN FinalVirtData(chunks[i]) ELSE VirtualData(chunks[i])]

\* VirtualPacket::into_raw_packets, from the payload into_payload returned
into_raw_packets(kind, contents, max_size) ==
    LET stream == U32BE(Len(contents)) \o U16BE(kind) \o contents
        chunks == Chunks(stream, max_size)
    IN  [i \in 1..Len(chunks) |->
            IF i = Len(chunks) THEN FinalVirtData(chunks[i]) ELSE VirtualData(chunks[i])]

\* a receive that takes everything after the header for the payload
ReceiveSlicePhysical(b) ==
    IF ~SliceOk(b, 0, 4) \/ ~SliceOk(b, 4, 6) THEN Panic
    ELSE LET size == u32_from_bytes(Slice(b, 0, 4))
             kind == u16_from_bytes(Slice(b, 4, 6))
         IN  IF ~SliceOk(b, 6, 6 + size) THEN Panic
             ELSE IF VirtualPacketKind_from_repr(kind).tag # "ok"
                  THEN Err(UnknownPacketKindError(kind))
                  ELSE Ok([kind |-> kind, payload |-> Slice(b, 6, Len(b))])

\* a receive that unwraps the kind: an unknown kind is a panic
ReceiveSliceUnwrap(b) ==
    IF ~SliceOk(b, 0, 4) \/ ~SliceOk(b, 4, 6) THEN Panic
    ELSE LET size == u32_from_bytes(Slice(b, 0, 4))
             kind == u16_from_bytes(Slice(b, 4, 6))
         IN  IF ~SliceOk(b, 6, 6 + size) THEN Panic
             ELSE IF VirtualPacketKind_from_repr(kind).tag # "ok" THEN Panic
                  ELSE Ok([kind |-> kind, payload |-> Slice(b, 6, 6 + size)])

\* VirtualPacket::receive, lines 214-218: the header, the slice, the kind
ReceiveSlice(b) ==
    IF ~SliceOk(b, 0, 4) \/ ~SliceOk(b, 4, 6) THEN Panic
    ELSE LET size == u32_from_bytes(Slice(b, 0, 4))
             kind == u16_from_bytes(Slice(b, 4, 6))
         IN  IF ~SliceOk(b, 6, 6 + size) THEN Panic
             ELSE IF VirtualPacketKind_from_repr(kind).tag # "ok"
                  THEN Err(UnknownPacketKindError(kind))
                  ELSE Ok([kind |-> kind, payload |-> Slice(b, 6, 6 + size)])

\* Cursor reads of from_payload: Err(UnexpectedEof) when the bytes run out
CanRead(b, pos, n) == pos + n <= Len(b)

\* dusb::VariableAttributeKind as u16
SizeId == 1
KindId == 2
ArchivedId == 3
VersionId == 8
Kind2Id == 17

VariableAttributeKinds == {SizeId, KindId, ArchivedId, VersionId, Kind2Id}

\* VariableAttribute::from_payload: Size, Kind and Kind2 are 32-bit big-endian
\* integers, kept here as their 4 bytes (0xf0070004 is beyond TLC's integers);
\* Version and Archived are one byte
VariableAttribute_from_payload(id, data) ==
    IF Len(data) = (IF id \in {SizeId, KindId, Kind2Id} THEN 4 ELSE 1)
    THEN Ok([id |-> id, value |-> data])
    ELSE Panic

\* VariableAttribute::into_payload
VariableAttribute_into_payload(a) == a.value

\* dusb::VariableKind as u32, by its 4 bytes: String is 0xf0070004 (main.rs:339),
\* 0xf00e001a the kind request_variable asks for (main.rs:139)
StringKind == <<240, 7, 0, 4>>
ImageKind == <<240, 14, 0, 26>>
VariableKinds == {StringKind, ImageKind}

\* VariableContents::from_payload: a String is [length: u16 little-endian][text],
\* an Image is the bytes as they are
VariableContents_from_payload(kind, contents) ==
    IF kind = StringKind
    THEN IF Len(contents) < 2 THEN Err(CursorError)
         ELSE LET n == contents[1] + 256 * contents[2]
              IN  IF Len(contents) < 2 + n THEN Err(CursorError)
                  ELSE Ok([kind |-> "String", value |-> SubSeq(contents, 3, 2 + n)])
    ELSE Ok([kind |-> "Image", value |-> contents])

\* dusb::ParameterKind as u16
ScreenWidthId == 30
ScreenHeightId == 31
ParameterKinds == {ScreenWidthId, ScreenHeightId}

\* Parameter::from_payload for ScreenWidth and ScreenHeight: a 16-bit integer
Parameter_from_payload(kind, data) ==
    IF Len(data) = 2 THEN Ok([kind |-> kind, value |-> u16_from_bytes(data)]) ELSE Panic

\* a SetMode whose last field is 0x7dd0
Mode_into_7dd0(mode) == U16BE(mode) \o U16BE(1) \o U16BE(0) \o U16BE(0) \o U16BE(32208)

\* Mode as the 10 bytes of a SetMode: five 16-bit big-endian integers
Mode_into(mode) == U16BE(mode) \o U16BE(1) \o U16BE(0) \o U16BE(0) \o U16BE(2000)

\* from_payload, VariableHeader: the loop over the attributes (vtl.rs:281-296)
RECURSIVE ReadAttributes(_, _, _, _)
ReadAttributes(b, pos, n, acc) ==
    IF n = 0 THEN Ok(acc)
    ELSE IF ~CanRead(b, pos, 3) THEN Err(CursorError)
    ELSE LET id == u16_from_bytes(Slice(b, pos, pos + 2))
             is_valid == b[pos + 3] = 0
         IN  IF ~is_valid THEN ReadAttributes(b, pos + 3, n - 1, acc)
             ELSE IF ~CanRead(b, pos + 3, 2) THEN Err(CursorError)
             ELSE LET data_length == u16_from_bytes(Slice(b, pos + 3, pos + 5))
                  IN  IF ~CanRead(b, pos + 5, data_length) THEN Err(CursorError)
                      ELSE IF id \notin VariableAttributeKinds THEN Panic
                      ELSE LET a == VariableAttribute_from_payload(
                                        id, Slice(b, pos + 5, pos + 5 + data_length))
                           IN  IF a.tag # "ok" THEN a
                               ELSE ReadAttributes(b, pos + 5 + data_length, n - 1,
                                                   Append(acc, a.v))

\* from_payload, VariableHeader (vtl.rs:271-299)
VariableHeader_from_payload(b) ==
    IF ~CanRead(b, 0, 2) THEN Err(CursorError)
    ELSE LET name_length == u16_from_bytes(Slice(b, 0, 2))
         IN  IF ~CanRead(b, 2, name_length + 3) THEN Err(CursorError)
             ELSE LET name == Slice(b, 2, 2 + name_length)
                      attribute_count ==
                          u16_from_bytes(Slice(b, name_length + 3, name_length + 5))
                      attrs == ReadAttributes(b, name_length + 5, attribute_count, <<>>)
                  IN  IF attrs.tag # "ok" THEN attrs
                      ELSE Ok(VirtualPacket(VariableHeaderId,
                                            [name |-> name, attributes |-> attrs.v]))

\* a loop over the entries that ends at the first entry without a value
RECURSIVE ReadParametersBreak(_, _, _, _)
ReadParametersBreak(b, pos, n, acc) ==
    IF n = 0 THEN Ok(acc)
    ELSE IF ~CanRead(b, pos, 3) THEN Err(CursorError)
    ELSE IF b[pos + 3] # 0 THEN Ok(acc)
    ELSE IF ~CanRead(b, pos + 3, 2) THEN Err(CursorError)
    ELSE LET length == u16_from_bytes(Slice(b, pos + 3, pos + 5))
         IN  IF ~CanRead(b, pos + 5, length) THEN Err(CursorError)
             ELSE ReadParametersBreak(
                      b, pos + 5 + length, n - 1,
                      Append(acc, [kind |-> u16_from_bytes(Slice(b, pos, pos + 2)),
                                   value |-> u16_from_bytes(
                                                 Slice(b, pos + 5, pos + 5 + length))]))

\* from_payload, ParameterResponse: the loop over the entries (vtl.rs:244-267)
RECURSIVE ReadParameters(_, _, _, _)
ReadParameters(b, pos, n, acc) ==
    IF n = 0 THEN Ok(acc)
    ELSE IF ~CanRead(b, pos, 3) THEN Err(CursorError)
    ELSE LET id == u16_from_bytes(Slice(b, pos, pos + 2))
             is_valid == b[pos + 3] = 0
         IN  IF ~is_valid THEN ReadParameters(b, pos + 3, n - 1, acc)
             ELSE IF ~CanRead(b, pos + 3, 2) THEN Err(CursorError)
             ELSE LET length == u16_from_bytes(Slice(b, pos + 3, pos + 5))
                      parameter_length == IF length = 0 THEN 153600 ELSE length
                  IN  IF ~CanRead(b, pos + 5, parameter_length) THEN Err(CursorError)
                      ELSE IF id \notin ParameterKinds
                      THEN Err(UnknownParameterKindError(id))
                      ELSE LET q == Parameter_from_payload(
                                        id, Slice(b, pos + 5, pos + 5 + parameter_length))
                           IN  IF q.tag # "ok" THEN q
                               ELSE ReadParameters(b, pos + 5 + parameter_length, n - 1,
                                                   Append(acc, q.v))

\* from_payload, ParameterResponse (vtl.rs:240-270)
ParameterResponse_from_payload(b) ==
    IF ~CanRead(b, 0, 2) THEN Err(CursorError)
    ELSE LET parameters == ReadParameters(b, 2, u16_from_bytes(Slice(b, 0, 2)), <<>>)
         IN  IF parameters.tag # "ok" THEN parameters
             ELSE Ok(VirtualPacket(ParameterResponseId, parameters.v))

\* from_payload, ParameterRequest (vtl.rs:226-239): the ids that follow the count
RECURSIVE RequestedParameters(_, _)
RequestedParameters(b, amount) ==
    IF amount = 0 \/ Len(b) < 2 THEN Ok(<<>>)
    ELSE LET id == u16_from_bytes(Slice(b, 0, 2))
             rest == RequestedParameters(Slice(b, 2, Len(b)), amount - 1)
         IN  IF id \notin ParameterKinds THEN Panic       \* from_repr(id).unwrap()
             ELSE IF rest.tag # "ok" THEN rest
             ELSE Ok(<<id>> \o rest.v)

\* VirtualPacket::from_payload for the kinds the calculator of this model sends
\* (SetMode, ParameterRequest and ParameterResponse are not among them)
from_payload(kind, payload) ==
    CASE kind = SetModeId ->
            IF ~SliceOk(payload, 0, 2) THEN Panic
            ELSE Ok(VirtualPacket(kind, u16_from_bytes(Slice(payload, 0, 2))))
      [] kind = ParameterRequestId ->
            IF ~SliceOk(payload, 0, 2) THEN Panic
            ELSE LET ids == RequestedParameters(Slice(payload, 2, Len(payload)),
                                                u16_from_bytes(Slice(payload, 0, 2)))
                 IN  IF ids.tag # "ok" THEN ids ELSE Ok(VirtualPacket(kind, ids.v))
      [] kind = VariableHeaderId -> VariableHeader_from_payload(payload)
      [] kind = ParameterResponseId -> ParameterResponse_from_payload(payload)
      [] kind = VariableContentsId -> Ok(VirtualPacket(kind, payload))
      [] kind = SetModeAcknowledgeId -> Ok(VirtualPacket(kind, <<>>))
      [] kind = WaitId ->
            IF CanRead(payload, 0, 4)
            THEN Ok(VirtualPacket(kind, u32_from_bytes(Slice(payload, 0, 4))))
            ELSE Err(CursorError)
      [] kind = EndOfTransmissionId -> Ok(VirtualPacket(kind, <<>>))
      [] kind = ErrorId ->
            IF ~CanRead(payload, 0, 2) THEN Err(CursorError)
            ELSE LET code == u16_from_bytes(Slice(payload, 0, 2))
                 IN  IF code \in DeviceErrorCodes THEN Ok(VirtualPacket(kind, code))
                     ELSE Panic
      [] kind \in {DirectoryRequestId, RequestVariableId} -> Panic   \* todo!()

\* VirtualPacket::receive once receive_bytes has returned `b`
receive(b) ==
    LET s == ReceiveSlice(b)
    IN  IF s.tag # "ok" THEN s ELSE from_payload(s.v.kind, s.v.payload)

\* an into_payload that writes the count of a DirectoryRequest on 2 bytes
into_payload_count16(p) ==
    CASE p.kind = SetModeId -> Ok(Mode_into(p.body))
      [] p.kind = ParameterRequestId -> Ok(U16BE(Len(p.body)) \o U16List(p.body))
      [] p.kind = DirectoryRequestId ->
            Ok(U16BE(Len(p.body)) \o U16List(p.body) \o <<0, 1, 0, 1, 0, 1, 1>>)
      [] OTHER -> Panic

\* VirtualPacket::into_payload
into_payload(p) ==
    CASE p.kind = SetModeId -> Ok(Mode_into(p.body))
      [] p.kind = ParameterRequestId -> Ok(U16BE(Len(p.body)) \o U16List(p.body))
      [] p.kind = RequestVariableId ->
            Ok(U16BE(Len(p.body.name)) \o p.body.name \o <<0, 1, 255, 255, 255, 255>>
               \o U16BE(Len(p.body.requested)) \o U16List(p.body.requested)
               \o U16BE(Len(p.body.specified)) \o SpecifiedAttributes(p.body.specified)
               \o <<0, 0>>)
      [] p.kind = DirectoryRequestId ->
            Ok(U32BE(Len(p.body)) \o U16List(p.body) \o <<0, 1, 0, 1, 0, 1, 1>>)
      [] p.kind \in {ParameterResponseId, VariableHeaderId, VariableContentsId,
                     SetModeAcknowledgeId, WaitId, EndOfTransmissionId, ErrorId,
                     RequestToSendId}
            -> Panic   \* todo!()

----------------------------------------------------------------------------
(* The calculator: what it may hand to a blocked RawPackets::receive *)

AckSentinel == 57344                     \* 0xe000 (vtl.rs:172, 196, 208)
ClampCeiling == 1018                     \* main.rs:60
InitialRequest == 1019                   \* main.rs:48

DevReqSizes == {2000}                    \* size of its BufferSizeRequests
DevRespSizes == {0, 8, 500, 1018, 1019, 2000}   \* sizes it advertises
DevAcks == {AckSentinel, 0, 224}         \* E0 00, 00 00, 00 E0

\* the bytes of one raw packet on the transport
Frame(id, payload) == U32BE(Len(payload)) \o <<id>> \o payload

\* the byte stream of a virtual packet: [length][kind][payload]
VStream(kind, payload) == U32BE(Len(payload)) \o U16BE(kind) \o payload

HeaderA == VStream(VariableHeaderId, <<0, 1, 65, 0, 0, 0>>)
\* B: a Size that is not valid, then Kind = String
HeaderB ==
    VStream(VariableHeaderId,
            <<0, 1, 66, 0, 0, 2, 0, 1, 1, 0, 2, 0, 0, 4>> \o StringKind)
VariableA == [name |-> <<65>>, attributes |-> <<>>]
VariableB == [name |-> <<66>>, attributes |-> <<[id |-> KindId, value |-> StringKind]>>]
\* ScreenWidth = 320, and a ScreenHeight that is not valid
Parameters == VStream(ParameterResponseId, <<0, 2, 0, 30, 0, 0, 2, 1, 64, 0, 31, 1>>)

DevMsgs ==
    { HeaderA, HeaderB,
      VStream(WaitId, <<0, 0, 0, 50>>),
      VStream(EndOfTransmissionId, <<>>),
      VStream(ErrorId, <<0, 12>>),               \* DeviceError::OutOfMemory
      VStream(ErrorId, <<0, 255>>),              \* no DeviceError
      VStream(SetModeAcknowledgeId, <<>>),
      VStream(VariableContentsId, <<1, 0, 65>>),  \* the String "A"
      Parameters,
      VStream(DirectoryRequestId, <<0, 0, 0, 0, 0, 1, 0, 1, 0, 1, 1>>),
      VStream(65535, <<>>),                      \* kind 0xffff
      VStream(65535, <<7>>),
      VStream(EndOfTransmissionId, <<>>) \o <<9, 9>>,          \* padded
      VStream(VariableContentsId, <<3, 4, 5>>) \o <<9, 9>>,    \* padded
      U32BE(5) \o U16BE(EndOfTransmissionId),                  \* 5 bytes declared, 0 sent
      U32BE(5) \o U16BE(65535),
      <<0, 0, 0>> }                                            \* no header

\* the frames of a message sent in fragments of at most n bytes
FragmentFrames(stream, n) ==
    LET chunks == Chunks(stream, n)
    IN  [i \in 1..Len(chunks) |-> Frame(IF i = Len(chunks) THEN 4 ELSE 3, chunks[i])]

ControlFrames ==
    {Frame(1, U32BE(x)) : x \in DevReqSizes} \cup
    {Frame(2, U32BE(x)) : x \in DevRespSizes} \cup
    {Frame(5, U16BE(x)) : x \in DevAcks} \cup
    { Frame(0, <<>>), Frame(6, <<1>>),          \* no raw packet kind
      Frame(1, <<0, 0>>), Frame(2, <<>>), Frame(5, <<224>>),   \* payload too short
      <<>> }                                    \* nothing: the read times out

\* What the calculator delivers next, with the fragments it still holds.  It sends a
\* message's fragments in order; between them it may send control packets.
Inbound(at, d, nmsgs, nreq) ==
    {[frame |-> f, dev |-> d] :
        f \in {c \in ControlFrames : Len(c) < 5 \/ c[5] # 1 \/ nreq < MaxBufReq}} \cup
    (IF d # <<>> THEN {[frame |-> Head(d), dev |-> Tail(d)]}
     ELSE IF at # "recv"
     THEN {[frame |-> Frame(3, <<0, 0>>), dev |-> <<>>],
           [frame |-> Frame(4, VStream(EndOfTransmissionId, <<>>)), dev |-> <<>>]}
     ELSE IF nmsgs < MaxMsgs
     THEN {[frame |-> Head(FragmentFrames(m, n)), dev |-> Tail(FragmentFrames(m, n))] :
              m \in DevMsgs, n \in {DevChunk, 1018}}
     ELSE {})

----------------------------------------------------------------------------
(* The session: main.rs, impl Calculator.  A handler takes the state as a   *)
(* record s and returns the state in which the PC next blocks or returns.   *)

State ==
    [max_raw_packet_size |-> max_raw_packet_size, alive |-> alive, op |-> op,
     stage |-> stage, pc |-> pc, packets |-> packets, depth |-> depth,
     bytes |-> bytes, ret |-> ret, variables |-> variables, result |-> result,
     log |-> log, vlog |-> vlog, dev |-> dev, ops |-> ops]

Becomes(s) ==
    /\ max_raw_packet_size' = s.max_raw_packet_size
    /\ alive' = s.alive
    /\ op' = s.op
    /\ stage' = s.stage
    /\ pc' = s.pc
    /\ packets' = s.packets
    /\ depth' = s.depth
    /\ bytes' = s.bytes
    /\ ret' = s.ret
    /\ variables' = s.variables
    /\ result' = s.result
    /\ log' = s.log
    /\ vlog' = s.vlog
    /\ dev' = s.dev
    /\ ops' = s.ops
    /\ buffer' = buffer      \* the handlers read whole raw packets (see ReadSpec)

Tx(p) == [d |-> "tx", p |-> p]
Rx(p) == [d |-> "rx", p |-> p]
\* a frame RawPackets::receive could not turn into a packet
Unparsed == RawPacket("unparsed", 0, <<>>)

\* the operation returns r to its caller (or the process dies)
Return(s, r) ==
    [s EXCEPT !.result = r,
              !.pc = IF r.tag = "panic" THEN "aborted"
                     ELSE IF s.op.name = "new" /\ r.tag # "ok" THEN "failed"
                     ELSE "idle",
              !.alive = s.alive \/ (s.op.name = "new" /\ r.tag = "ok"),
              !.stage = "returned", !.packets = <<>>, !.depth = 0,
              !.ret = None, !.variables = <<>>, !.dev = <<>>]

\* RawPackets::send(p)?; then block in the receive named by `at`
SendThen(s, p, txok, at) ==
    IF txok THEN [s EXCEPT !.log = Append(@, Tx(p)), !.pc = at]
    ELSE Return(s, Err(IoError))

\* RawPackets::receive: the frame the calculator delivered, parsed and logged
Received(s, in) ==
    LET r == RawReceive(in.frame)
    IN  [s |-> [s EXCEPT !.log = Append(@, Rx(IF r.tag = "ok" THEN r.v ELSE Unparsed)),
                         !.dev = in.dev],
         r |-> r]

\* Calculator::negotiate_packet_size, line 54
negotiate_packet_size(s, max, txok) ==
    SendThen([s EXCEPT !.stage = "negotiate", !.log = <<>>,
                       !.vlog = Append(@, [d |-> "negotiate", kind |-> 0, body |-> max])],
             RequestBufSize(max), txok, "neg_recv")

\* VirtualPacket::send up to its first wait_for_acknowledge (vtl.rs:148-156)
send(s, p, txok) ==
    LET contents == into_payload(p)
    IN  IF contents.tag # "ok" THEN Return(s, Panic)
        ELSE IF s.max_raw_packet_size = 0 THEN Return(s, Panic)   \* chunks(0)
        ELSE LET pk == into_raw_packets(p.kind, contents.v, s.max_raw_packet_size)
             IN  SendThen([s EXCEPT !.packets = pk, !.log = <<>>, !.depth = 0,
                                    !.vlog = Append(@, [d |-> "tx", kind |-> p.kind,
                                                        body |-> p.body])],
                          pk[1], txok, "wait_ack")

\* VirtualPacket::receive up to its first RawPackets::receive
begin_receive(s) ==
    [s EXCEPT !.pc = "recv", !.bytes = <<>>, !.log = <<>>, !.ret = None]

\* a negotiation that takes the number of whatever packet came for the size
negotiate_receive_any(s, r0) ==
    IF r0.tag # "ok" THEN Return(s, r0)
    ELSE LET size == IF r0.v.val > ClampCeiling THEN ClampCeiling ELSE r0.v.val
         IN  [s EXCEPT !.max_raw_packet_size = size, !.pc = "negotiated",
                           !.vlog = Append(@, [d |-> "negotiated", kind |-> 0,
                                               body |-> size])]

\* a negotiation that stores the advertised size as it is
negotiate_receive_unclamped(s, r0) ==
    LET r == receive_exact("BufSizeAlloc", r0)
    IN  IF r.tag # "ok" THEN Return(s, r)
        ELSE [s EXCEPT !.max_raw_packet_size = r.v.val, !.pc = "negotiated",
                       !.vlog = Append(@, [d |-> "negotiated", kind |-> 0,
                                           body |-> r.v.val])]

\* Calculator::negotiate_packet_size, lines 55-74
negotiate_receive(s, r0) ==
    LET r == receive_exact("BufSizeAlloc", r0)
    IN  IF r.tag # "ok" THEN Return(s, r)
        ELSE IF r.v.kind = "RespondBufSize"
        THEN LET size == IF r.v.val > ClampCeiling THEN ClampCeiling ELSE r.v.val
             IN  [s EXCEPT !.max_raw_packet_size = size, !.pc = "negotiated",
                           !.vlog = Append(@, [d |-> "negotiated", kind |-> 0,
                                               body |-> size])]
        ELSE Return(s, Err(RawWrongPacketKind("BufSizeAlloc", RawKind(r.v))))

\* a wait whose WrongPacketKind names the wrong expected kind
wait_for_acknowledge_misreport(s, r, txok) ==
    IF r.tag # "ok" THEN Return(s, r)
    ELSE IF r.v.kind = "RequestBufSize"
    THEN SendThen([s EXCEPT !.depth = @ + 1],
                  RespondBufSize(s.max_raw_packet_size), txok, "wait_ack")
    ELSE IF r.v.kind = "VirtualDataAcknowledge"
    THEN IF r.v.val # AckSentinel THEN Return(s, Err(InvalidPayload))
         ELSE IF Len(s.packets) > 1
         THEN SendThen([s EXCEPT !.packets = Tail(@), !.depth = 0],
                       s.packets[2], txok, "wait_ack")
         ELSE [s EXCEPT !.packets = <<>>, !.depth = 0, !.ret = Ok("unit"), !.pc = "sent"]
    ELSE Return(s, Err(RawWrongPacketKind("BufSizeAlloc", RawKind(r.v))))

\* a wait that takes its answer to a BufferSizeRequest for the acknowledgment
wait_for_acknowledge_once(s, r, txok) ==
    IF r.tag # "ok" THEN Return(s, r)
    ELSE IF r.v.kind = "RequestBufSize"
    THEN LET s1 == SendThen(s, RespondBufSize(s.max_raw_packet_size), txok, "wait_ack")
         IN  IF ~txok THEN s1
             ELSE IF Len(s.packets) > 1
             THEN SendThen([s1 EXCEPT !.packets = Tail(@), !.depth = 0],
                           s.packets[2], txok, "wait_ack")
             ELSE [s1 EXCEPT !.packets = <<>>, !.depth = 0, !.ret = Ok("unit"),
                             !.pc = "sent"]
    ELSE IF r.v.kind = "VirtualDataAcknowledge"
    THEN IF r.v.val # AckSentinel THEN Return(s, Err(InvalidPayload))
         ELSE IF Len(s.packets) > 1
         THEN SendThen([s EXCEPT !.packets = Tail(@), !.depth = 0],
                       s.packets[2], txok, "wait_ack")
         ELSE [s EXCEPT !.packets = <<>>, !.depth = 0, !.ret = Ok("unit"), !.pc = "sent"]
    ELSE Return(s, Err(RawWrongPacketKind("VirtDataAck", RawKind(r.v))))

\* a wait that answers a BufferSizeRequest with the size requested
wait_for_acknowledge_echo(s, r, txok) ==
    IF r.tag # "ok" THEN Return(s, r)
    ELSE IF r.v.kind = "RequestBufSize"
    THEN SendThen([s EXCEPT !.depth = @ + 1], RespondBufSize(r.v.val), txok, "wait_ack")
    ELSE IF r.v.kind = "VirtualDataAcknowledge"
    THEN IF r.v.val # AckSentinel THEN Return(s, Err(InvalidPayload))
         ELSE IF Len(s.packets) > 1
         THEN SendThen([s EXCEPT !.packets = Tail(@), !.depth = 0],
                       s.packets[2], txok, "wait_ack")
         ELSE [s EXCEPT !.packets = <<>>, !.depth = 0, !.ret = Ok("unit"), !.pc = "sent"]
    ELSE Return(s, Err(RawWrongPacketKind("VirtDataAck", RawKind(r.v))))

\* a wait that takes the size of a BufferSizeRequest for the session's
wait_for_acknowledge_resize(s, r, txok) ==
    IF r.tag # "ok" THEN Return(s, r)
    ELSE IF r.v.kind = "RequestBufSize"
    THEN SendThen([s EXCEPT !.depth = @ + 1,
                            !.max_raw_packet_size = Min(r.v.val, ClampCeiling)],
                  RespondBufSize(s.max_raw_packet_size), txok, "wait_ack")
    ELSE IF r.v.kind = "VirtualDataAcknowledge"
    THEN IF r.v.val # AckSentinel THEN Return(s, Err(InvalidPayload))
         ELSE IF Len(s.packets) > 1
         THEN SendThen([s EXCEPT !.packets = Tail(@), !.depth = 0],
                       s.packets[2], txok, "wait_ack")
         ELSE [s EXCEPT !.packets = <<>>, !.depth = 0, !.ret = Ok("unit"), !.pc = "sent"]
    ELSE Return(s, Err(RawWrongPacketKind("VirtDataAck", RawKind(r.v))))

\* a wait that takes any VirtualDataAcknowledge for the acknowledgment
wait_for_acknowledge_any(s, r, txok) ==
    IF r.tag # "ok" THEN Return(s, r)
    ELSE IF r.v.kind = "RequestBufSize"
    THEN SendThen([s EXCEPT !.depth = @ + 1],
                  RespondBufSize(s.max_raw_packet_size), txok, "wait_ack")
    ELSE IF r.v.kind = "VirtualDataAcknowledge"
    THEN IF Len(s.packets) > 1
         THEN SendThen([s EXCEPT !.packets = Tail(@), !.depth = 0],
                       s.packets[2], txok, "wait_ack")
         ELSE [s EXCEPT !.packets = <<>>, !.depth = 0, !.ret = Ok("unit"), !.pc = "sent"]
    ELSE Return(s, Err(RawWrongPacketKind("VirtDataAck", RawKind(r.v))))

\* VirtualPacket::wait_for_acknowledge and the loop of VirtualPacket::send around it
wait_for_acknowledge(s, r, txok) ==
    IF r.tag # "ok" THEN Return(s, r)
    ELSE IF r.v.kind = "RequestBufSize"
    THEN SendThen([s EXCEPT !.depth = @ + 1],
                  RespondBufSize(s.max_raw_packet_size), txok, "wait_ack")
    ELSE IF r.v.kind = "VirtualDataAcknowledge"
    THEN IF r.v.val # AckSentinel THEN Return(s, Err(InvalidPayload))
         ELSE IF Len(s.packets) > 1
         THEN SendThen([s EXCEPT !.packets = Tail(@), !.depth = 0],
                       s.packets[2], txok, "wait_ack")
         ELSE [s EXCEPT !.packets = <<>>, !.depth = 0, !.ret = Ok("unit"), !.pc = "sent"]
    ELSE Return(s, Err(RawWrongPacketKind("VirtDataAck", RawKind(r.v))))

\* a receive_bytes that acknowledges whatever it read before looking at it
receive_bytes_eager(s, r, txok) ==
    IF r.tag # "ok" THEN Return(s, r)
    ELSE IF r.v.kind = "VirtualData"
    THEN SendThen([s EXCEPT !.bytes = @ \o r.v.payload],
                  VirtualDataAcknowledge(AckSentinel), txok, "recv")
    ELSE IF r.v.kind = "FinalVirtData"
    THEN LET b == s.bytes \o r.v.payload
             s1 == SendThen([s EXCEPT !.bytes = b],
                            VirtualDataAcknowledge(AckSentinel), txok, "received")
             got == receive(b)
         IN  IF ~txok THEN s1
             ELSE IF got.tag # "ok" THEN Return(s1, got)
             ELSE [s1 EXCEPT !.ret = got,
                             !.vlog = Append(@, [d |-> "rx", kind |-> got.v.kind,
                                                 body |-> got.v.body])]
    ELSE Return(SendThen(s, VirtualDataAcknowledge(AckSentinel), TRUE, "recv"),
                Err(RawWrongPacketKind("VirtDataAck", RawKind(r.v))))

\* a receive_bytes that acknowledges the virtual packet once, on its last fragment
receive_bytes_batched(s, r, txok) ==
    IF r.tag # "ok" THEN Return(s, r)
    ELSE IF r.v.kind = "VirtualData"
    THEN [s EXCEPT !.bytes = @ \o r.v.payload, !.pc = "recv"]
    ELSE IF r.v.kind = "FinalVirtData"
    THEN LET b == s.bytes \o r.v.payload
             s1 == SendThen([s EXCEPT !.bytes = b],
                            VirtualDataAcknowledge(AckSentinel), txok, "received")
             got == receive(b)
         IN  IF ~txok THEN s1
             ELSE IF got.tag # "ok" THEN Return(s1, got)
             ELSE [s1 EXCEPT !.ret = got,
                             !.vlog = Append(@, [d |-> "rx", kind |-> got.v.kind,
                                                 body |-> got.v.body])]
    ELSE Return(s, Err(RawWrongPacketKind("VirtDataAck", RawKind(r.v))))

\* a receive_bytes that returns on the last fragment without acknowledging it
receive_bytes_unacknowledged(s, r, txok) ==
    IF r.tag # "ok" THEN Return(s, r)
    ELSE IF r.v.kind = "VirtualData"
    THEN SendThen([s EXCEPT !.bytes = @ \o r.v.payload],
                  VirtualDataAcknowledge(AckSentinel), txok, "recv")
    ELSE IF r.v.kind = "FinalVirtData"
    THEN LET b == s.bytes \o r.v.payload
             s1 == [s EXCEPT !.bytes = b, !.pc = "received"]
             got == receive(b)
         IN  IF got.tag # "ok" THEN Return(s1, got)
             ELSE [s1 EXCEPT !.ret = got,
                             !.vlog = Append(@, [d |-> "rx", kind |-> got.v.kind,
                                                 body |-> got.v.body])]
    ELSE Return(s, Err(RawWrongPacketKind("VirtDataAck", RawKind(r.v))))

\* VirtualPacket::receive_bytes, one turn of its loop, and on the last fragment
\* the rest of VirtualPacket::receive
receive_bytes(s, r, txok) ==
    IF r.tag # "ok" THEN Return(s, r)
    ELSE IF r.v.kind = "VirtualData"
    THEN SendThen([s EXCEPT !.bytes = @ \o r.v.payload],
                  VirtualDataAcknowledge(AckSentinel), txok, "recv")
    ELSE IF r.v.kind = "FinalVirtData"
    THEN LET b == s.bytes \o r.v.payload
             s1 == SendThen([s EXCEPT !.bytes = b],
                            VirtualDataAcknowledge(AckSentinel), txok, "received")
             got == receive(b)
         IN  IF ~txok THEN s1
             ELSE IF got.tag # "ok" THEN Return(s1, got)
             ELSE [s1 EXCEPT !.ret = got,
                             !.vlog = Append(@, [d |-> "rx", kind |-> got.v.kind,
                                                 body |-> got.v.body])]
    ELSE Return(s, Err(RawWrongPacketKind("VirtDataAck", RawKind(r.v))))

\* a caller starts an operation on the session
Call(s, name, arg) ==
    [s EXCEPT !.op = [name |-> name, arg |-> arg], !.ops = @ + 1, !.result = None,
              !.log = <<>>, !.vlog = <<>>, !.bytes = <<>>, !.ret = None]

\* Calculator::request_directory from the point VirtualPacket::send or ::receive
\* returned Ok (main.rs:103-127)
request_directory(s) ==
    IF s.pc = "sent" THEN begin_receive([s EXCEPT !.stage = "listing", !.variables = <<>>])
    ELSE LET packet == s.ret.v
         IN  IF s.stage = "listing" /\ packet.kind = WaitId
             THEN begin_receive([s EXCEPT !.stage = "listing_waited"])   \* sleep(100ms)
             ELSE IF packet.kind = VariableHeaderId
             THEN begin_receive([s EXCEPT !.stage = "listing",
                                          !.variables = Append(@, packet.body)])
             ELSE IF packet.kind = EndOfTransmissionId
             THEN Return(s, Ok(s.variables))
             ELSE Return(s, Err(WrongPacketKind(VariableHeaderId, packet.kind)))

\* a set_mode that takes whatever answers for the acknowledgment
set_mode_any(s, txok) ==
    IF s.pc = "negotiated"
    THEN send([s EXCEPT !.stage = "request"], VirtualPacket(SetModeId, s.op.arg), txok)
    ELSE IF s.pc = "sent" THEN begin_receive([s EXCEPT !.stage = "reply"])
    ELSE Return(s, Ok("unit"))

\* Calculator::set_mode from the point negotiate_packet_size, VirtualPacket::send
\* or ::receive returned Ok (main.rs:200-208)
set_mode(s, txok) ==
    IF s.pc = "negotiated"
    THEN send([s EXCEPT !.stage = "request"], VirtualPacket(SetModeId, s.op.arg), txok)
    ELSE IF s.pc = "sent" THEN begin_receive([s EXCEPT !.stage = "reply"])
    ELSE LET packet == s.ret.v
         IN  IF packet.kind = SetModeAcknowledgeId THEN Return(s, Ok("unit"))
             ELSE Return(s, Err(WrongPacketKind(SetModeAcknowledgeId, packet.kind)))

\* a request_parameters that asks for nothing and reads what comes
request_parameters_silent(s, txok) ==
    IF s.pc = "negotiated" THEN begin_receive([s EXCEPT !.stage = "reply"])
    ELSE LET packet == s.ret.v
         IN  IF packet.kind = ParameterResponseId THEN Return(s, Ok(packet.body))
             ELSE Return(s, Err(WrongPacketKind(ParameterResponseId, packet.kind)))

\* Calculator::request_parameters from the point negotiate_packet_size,
\* VirtualPacket::send or ::receive returned Ok (main.rs:83-96)
request_parameters(s, txok) ==
    IF s.pc = "negotiated"
    THEN send([s EXCEPT !.stage = "request"],
              VirtualPacket(ParameterRequestId, s.op.arg), txok)
    ELSE IF s.pc = "sent" THEN begin_receive([s EXCEPT !.stage = "reply"])
    ELSE LET packet == s.ret.v
         IN  IF packet.kind = ParameterResponseId THEN Return(s, Ok(packet.body))
             ELSE Return(s, Err(WrongPacketKind(ParameterResponseId, packet.kind)))

\* the packet Calculator::request_variable sends (main.rs:131-140)
RequestVariable(name) ==
    VirtualPacket(RequestVariableId,
                  [name |-> name,
                   requested |-> <<ArchivedId, VersionId, SizeId, KindId>>,
                   specified |-> <<[id |-> Kind2Id, value |-> ImageKind]>>])

\* the Kind attributes of a header, in order (main.rs:145-154)
KindsOf(variable) == SelectSeq(variable.attributes, LAMBDA a : a.id = KindId)

\* a request_variable that takes the contents as they are, whatever the header says
request_variable_opaque(s) ==
    IF s.pc = "sent" THEN begin_receive([s EXCEPT !.stage = "header", !.variables = <<>>])
    ELSE LET packet == s.ret.v
         IN  IF s.stage = "header"
             THEN IF packet.kind = VariableHeaderId
                  THEN IF KindsOf(packet.body) = <<>> THEN Return(s, Panic)
                       ELSE IF Head(KindsOf(packet.body)).value \notin VariableKinds
                       THEN Return(s, Panic)
                       ELSE begin_receive([s EXCEPT !.stage = "contents",
                                                    !.variables = <<packet.body>>])
                  ELSE IF packet.kind = ErrorId
                  THEN Return(s, Err(DeviceError(packet.body)))
                  ELSE Return(s, Err(WrongPacketKind(VariableHeaderId, packet.kind)))
             ELSE IF packet.kind = VariableContentsId
                  THEN Return(s, Ok([kind |-> "Image", value |-> packet.body]))
                  ELSE Return(s, Err(WrongPacketKind(VariableContentsId, packet.kind)))

\* Calculator::request_variable from the point VirtualPacket::send or ::receive
\* returned Ok (main.rs:143-174)
request_variable(s) ==
    IF s.pc = "sent" THEN begin_receive([s EXCEPT !.stage = "header", !.variables = <<>>])
    ELSE LET packet == s.ret.v
         IN  IF s.stage = "header"
             THEN IF packet.kind = VariableHeaderId
                  THEN IF KindsOf(packet.body) = <<>> THEN Return(s, Panic)   \* unwrap
                       ELSE IF Head(KindsOf(packet.body)).value \notin VariableKinds
                       THEN Return(s, Panic)                                  \* unwrap
                       ELSE begin_receive([s EXCEPT !.stage = "contents",
                                                    !.variables = <<packet.body>>])
                  ELSE IF packet.kind = ErrorId
                  THEN Return(s, Err(DeviceError(packet.body)))
                  ELSE Return(s, Err(WrongPacketKind(VariableHeaderId, packet.kind)))
             ELSE IF packet.kind = VariableContentsId
                  THEN LET kind == Head(KindsOf(s.variables[1])).value
                           contents == VariableContents_from_payload(kind, packet.body)
                       IN  Return(s, contents)
                  ELSE Return(s, Err(WrongPacketKind(VariableContentsId, packet.kind)))

\* VariableContents::into_payload of a String: [length: u16 little-endian][text]
VariableContents_into_payload(text) == <<Len(text) % 256, Len(text) \div 256>> \o text

\* Calculator::send_variable from the point VirtualPacket::send or ::receive
\* returned Ok (main.rs:183-194)
send_variable(s, txok) ==
    IF s.pc = "sent" /\ s.stage = "header"
    THEN send([s EXCEPT !.stage = "contents"],
              VirtualPacket(VariableContentsId,
                            VariableContents_into_payload(s.op.arg.contents)), txok)
    ELSE IF s.pc = "sent" /\ s.stage = "contents"
    THEN begin_receive([s EXCEPT !.stage = "reply"])
    ELSE IF s.pc = "sent" THEN Return(s, Ok("unit"))
    ELSE LET packet == s.ret.v
         IN  IF packet.kind = DataAcknowledgeId
             THEN send([s EXCEPT !.stage = "end"],
                       VirtualPacket(EndOfTransmissionId, <<>>), txok)
             ELSE Return(s, Err(WrongPacketKind(DataAcknowledgeId, packet.kind)))

\* the operation goes on after a call it made returned Ok
Resume(s, txok) ==
    CASE s.op.name \in {"new", "negotiate_packet_size"} -> Return(s, Ok("unit"))
      [] s.op.name = "request_directory" -> request_directory(s)
      [] s.op.name = "set_mode" -> set_mode(s, txok)
      [] s.op.name = "request_parameters" -> request_parameters(s, txok)
      [] s.op.name = "request_variable" -> request_variable(s)
      [] s.op.name = "send_variable" -> send_variable(s, txok)

----------------------------------------------------------------------------
(* Actions *)

ReqSizes == {InitialRequest, 1024}
DirectoryAttributes == {<<1, 2>>, <<>>}      \* [Size, Kind] and no attribute
Modes == {3}                                 \* Mode::Normal (main.rs:331)
ParameterIds == {<<ScreenWidthId, ScreenHeightId>>}
Names == {<<65>>}                            \* "A"
\* the variable main sends (main.rs:333-347): Str1 = "Test", here S = "T"
Uploads ==
    {[header |-> [name |-> <<83>>,
                  attributes |-> <<[id |-> KindId, value |-> StringKind]>>],
      contents |-> <<84>>]}

\* Calculator::new (main.rs:38-51)
New ==
    /\ pc = "start"
    /\ \E txok \in BOOLEAN :
          Becomes(negotiate_packet_size(
                      [Call(State, "new", InitialRequest) EXCEPT
                          !.max_raw_packet_size = InitialRequest, !.ops = 0],
                      InitialRequest, txok))
    /\ UNCHANGED tvars

\* a call of Calculator::negotiate_packet_size
CallNegotiate ==
    /\ pc = "idle" /\ ops < MaxOps
    /\ \E max \in ReqSizes \cup {max_raw_packet_size}, txok \in BOOLEAN :
          Becomes(negotiate_packet_size(Call(State, "negotiate_packet_size", max),
                                        max, txok))
    /\ UNCHANGED tvars

\* a call of Calculator::request_directory
CallRequestDirectory ==
    /\ pc = "idle" /\ ops < MaxOps
    /\ \E attributes \in DirectoryAttributes, txok \in BOOLEAN :
          Becomes(send([Call(State, "request_directory", attributes) EXCEPT
                           !.stage = "request"],
                       VirtualPacket(DirectoryRequestId, attributes), txok))
    /\ UNCHANGED tvars

\* a call of Calculator::set_mode
CallSetMode ==
    /\ pc = "idle" /\ ops < MaxOps
    /\ \E mode \in Modes, txok \in BOOLEAN :
          Becomes(negotiate_packet_size(Call(State, "set_mode", mode),
                                        max_raw_packet_size, txok))
    /\ UNCHANGED tvars

\* a call of Calculator::request_parameters
CallRequestParameters ==
    /\ pc = "idle" /\ ops < MaxOps
    /\ \E parameters \in ParameterIds, txok \in BOOLEAN :
          Becomes(negotiate_packet_size(Call(State, "request_parameters", parameters),
                                        max_raw_packet_size, txok))
    /\ UNCHANGED tvars

\* a call of Calculator::request_variable
CallRequestVariable ==
    /\ pc = "idle" /\ ops < MaxOps
    /\ \E name \in Names, txok \in BOOLEAN :
          Becomes(send([Call(State, "request_variable", name) EXCEPT
                           !.stage = "request"],
                       RequestVariable(name), txok))
    /\ UNCHANGED tvars

\* a call of Calculator::send_variable
CallSendVariable ==
    /\ pc = "idle" /\ ops < MaxOps
    /\ \E upload \in Uploads, txok \in BOOLEAN :
          Becomes(send([Call(State, "send_variable", upload) EXCEPT
                           !.stage = "header"],
                       VirtualPacket(RequestToSendId, upload.header), txok))
    /\ UNCHANGED tvars

\* the RawPackets::receive of negotiate_packet_size returns
NegotiateReceive ==
    /\ pc = "neg_recv"
    /\ \E in \in Inbound(pc, dev, 0, 0) :
          LET g == Received(State, in) IN Becomes(negotiate_receive(g.s, g.r))
    /\ UNCHANGED tvars

\* the RawPackets::receive of wait_for_acknowledge returns
WaitForAcknowledge ==
    /\ pc = "wait_ack"
    /\ \E in \in Inbound(pc, dev, 0, depth), txok \in BOOLEAN :
          LET g == Received(State, in) IN Becomes(wait_for_acknowledge(g.s, g.r, txok))
    /\ UNCHANGED tvars

\* the RawPackets::receive of receive_bytes returns
ReceiveBytes ==
    /\ pc = "recv"
    /\ \E in \in Inbound(pc, dev, Len(SelectSeq(vlog, LAMBDA e : e.d = "rx")), 0),
          txok \in BOOLEAN :
          LET g == Received(State, in) IN Becomes(receive_bytes(g.s, g.r, txok))
    /\ UNCHANGED tvars

\* negotiate_packet_size, VirtualPacket::send or ::receive returned Ok to the operation
Continue ==
    /\ pc \in {"negotiated", "sent", "received"}
    /\ \E txok \in BOOLEAN : Becomes(Resume(State, txok))
    /\ UNCHANGED tvars

Init ==
    /\ max_raw_packet_size = InitialRequest
    /\ alive = FALSE
    /\ op = [name |-> "none", arg |-> 0]
    /\ stage = "returned"
    /\ pc = "start"
    /\ packets = <<>>
    /\ depth = 0
    /\ bytes = <<>>
    /\ ret = None
    /\ variables = <<>>
    /\ result = None
    /\ log = <<>>
    /\ vlog = <<>>
    /\ dev = <<>>
    /\ ops = 0
    /\ buffer = <<>>
    /\ t_in = <<>> /\ t_wire = <<>> /\ t_acc = <<>> /\ t_out = None /\ t_pc = "off"

Next ==
    \/ New
    \/ CallNegotiate
    \/ CallRequestDirectory
    \/ CallSetMode
    \/ CallRequestParameters
    \/ CallRequestVariable
    \/ CallSendVariable
    \/ NegotiateReceive
    \/ WaitForAcknowledge
    \/ ReceiveBytes
    \/ Continue

Spec == Init /\ [][Next]_vars

----------------------------------------------------------------------------
(* The framing of virtual packets, end to end: into_raw_packets and          *)
(* RawPackets::send on one side, RawPackets::receive, receive_bytes and the  *)
(* header parsing of VirtualPacket::receive on the other.                    *)

\* the sender holds a VirtualPacket, so its kind is one of the enum's
CodecKinds == {VariableContentsId, EndOfTransmissionId, DirectoryRequestId, SetModeId}

\* a payload of L bytes
Pattern(L, seed) == [i \in 1..L |-> (i * 37 + seed * 101) % 256]

CodecInputs ==
    {[kind |-> k, contents |-> Pattern(L, seed), max_size |-> M] :
        k \in CodecKinds, L \in 0..MaxLen, seed \in {0, 1}, M \in 1..MaxM}

CodecInit ==
    /\ max_raw_packet_size = InitialRequest
    /\ alive = FALSE
    /\ op = [name |-> "none", arg |-> 0]
    /\ stage = "returned"
    /\ pc = "off"
    /\ packets = <<>>
    /\ depth = 0
    /\ bytes = <<>>
    /\ ret = None
    /\ variables = <<>>
    /\ result = None
    /\ log = <<>>
    /\ vlog = <<>>
    /\ dev = <<>>
    /\ ops = 0
    /\ buffer = <<>>
    /\ t_in \in CodecInputs
    /\ t_wire = <<>> /\ t_acc = <<>> /\ t_out = None /\ t_pc = "fragment"

\* VirtualPacket::send: into_raw_packets, then RawPackets::send of each packet
Fragment ==
    /\ t_pc = "fragment"
    /\ LET pk == into_raw_packets(t_in.kind, t_in.contents, t_in.max_size)
       IN  t_wire' = [i \in 1..Len(pk) |-> RawSendBytes(pk[i])]
    /\ t_pc' = "reassemble"
    /\ UNCHANGED <<t_in, t_acc, t_out>>
    /\ UNCHANGED svars

\* one turn of receive_bytes' loop on the next frame; on the last fragment,
\* VirtualPacket::receive's parsing of what was accumulated
Reassemble ==
    /\ t_pc = "reassemble" /\ t_wire # <<>>
    /\ LET r == RawReceive(Head(t_wire))
       IN  IF r.tag = "ok" /\ r.v.kind = "VirtualData"
           THEN /\ t_acc' = t_acc \o r.v.payload
                /\ UNCHANGED <<t_out, t_pc>>
           ELSE IF r.tag = "ok" /\ r.v.kind = "FinalVirtData"
           THEN /\ t_acc' = t_acc \o r.v.payload
                /\ t_out' = ReceiveSlice(t_acc \o r.v.payload)
                /\ t_pc' = "done"
           ELSE /\ t_out' = IF r.tag = "ok"
                            THEN Err(RawWrongPacketKind("VirtDataAck", RawKind(r.v)))
                            ELSE r
                /\ t_pc' = "done"
                /\ UNCHANGED t_acc
    /\ t_wire' = Tail(t_wire)
    /\ UNCHANGED t_in
    /\ UNCHANGED svars

CodecNext == Fragment \/ Reassemble

CodecSpec == CodecInit /\ [][CodecNext]_vars

----------------------------------------------------------------------------
(* C1.  For every payload length L (0 included) and every max raw packet    *)
(* size M >= 1: a virtual packet fragmented by into_raw_packets(M) and sent, *)
(* then received and reassembled, gives back the same kind and the same L    *)
(* payload bytes in the same order.                                          *)

----------------------------------------------------------------------------
(* What the raw-packet log of the current call shows *)

IsTx(e, kind) == e.d = "tx" /\ e.p.kind = kind
IsRx(e, kind) == e.d = "rx" /\ e.p.kind = kind
IsDataTx(e) == IsTx(e, "VirtualData") \/ IsTx(e, "FinalVirtData")
IsDataRx(e) == IsRx(e, "VirtualData") \/ IsRx(e, "FinalVirtData")

\* the log of a VirtualPacket::send starts with a fragment sent, the log of a
\* VirtualPacket::receive with a raw packet read
SendLog == log # <<>> /\ IsDataTx(log[1])
ReceiveLog == log # <<>> /\ log[1].d = "rx"

DataSent(l) == SelectSeq(l, IsDataTx)
AcksIn(l) == Len(SelectSeq(l, LAMBDA e : IsRx(e, "VirtualDataAcknowledge")))

\* the fragments of the virtual packet the current operation is sending
Sending == LET tx == SelectSeq(vlog, LAMBDA e : e.d = "tx") IN tx[Len(tx)]
SendChunks ==
    into_raw_packets(Sending.kind,
                     into_payload(VirtualPacket(Sending.kind, Sending.body)).v,
                     max_raw_packet_size)

RECURSIVE DataReceived(_)
DataReceived(l) ==
    IF l = <<>> THEN <<>>
    ELSE (IF IsDataRx(Head(l)) THEN Head(l).p.payload ELSE <<>>) \o DataReceived(Tail(l))

----------------------------------------------------------------------------
(* C2.  VirtualPacket::send sends the n fragments of a virtual packet in    *)
(* order; the j-th fragment goes out when exactly j-1 acknowledgments have  *)
(* been read since the send began (one between two consecutive fragments,   *)
(* never a fragment before the acknowledgment of the one before), and send  *)
(* returns Ok only when the n-th acknowledgment has been read.              *)

C2_OneAckPerChunk ==
    SendLog =>
        /\ \A k \in 1..Len(log) :
              IsDataTx(log[k]) =>
                  LET j == Len(DataSent(SubSeq(log, 1, k)))
                  IN  /\ j <= Len(SendChunks)
                      /\ log[k].p = SendChunks[j]
                      /\ AcksIn(SubSeq(log, 1, k)) = j - 1
        /\ pc = "sent" =>
              /\ Len(DataSent(log)) = Len(SendChunks)
              /\ AcksIn(log) = Len(SendChunks)
              /\ IsRx(log[Len(log)], "VirtualDataAcknowledge")

\* a send of three fragments returned Ok, with a BufferSizeRequest on the way
C2_Witness ==
    /\ SendLog /\ pc = "sent"
    /\ Len(SendChunks) = 3
    /\ Len(DataSent(log)) = 3
    /\ \E k \in 1..Len(log) : IsRx(log[k], "RequestBufSize")

----------------------------------------------------------------------------
(* C3.  In the wait for an acknowledgment, a BufferSizeRequest read is       *)
(* answered by exactly one BufferSizeResponse carrying the session's current *)
(* max raw packet size, whatever size was requested, and the next thing the  *)
(* PC does is read again: no fragment is sent in between.                    *)

C3_InlineBufSizeRequest ==
    SendLog =>
        \A k \in 1..Len(log) :
            /\ IsRx(log[k], "RequestBufSize") =>
                  /\ k < Len(log) => log[k + 1] = Tx(RespondBufSize(max_raw_packet_size))
                  /\ k + 1 < Len(log) => log[k + 2].d = "rx"
                  /\ k = Len(log) => pc = "idle" /\ result = Err(IoError)
            /\ IsTx(log[k], "RespondBufSize") =>
                  k > 1 /\ IsRx(log[k - 1], "RequestBufSize")

\* a request for 2000 bytes was answered with the 8 of the session, and the
\* acknowledgment then read
C3_Witness ==
    /\ SendLog /\ max_raw_packet_size = 8
    /\ \E k \in 1..Len(log) :
          /\ log[k] = Rx(RequestBufSize(2000))
          /\ k + 1 < Len(log)
          /\ log[k + 1] = Tx(RespondBufSize(8))
          /\ log[k + 2] = Rx(VirtualDataAcknowledge(AckSentinel))

----------------------------------------------------------------------------
(* C4.  VirtualPacket::receive_bytes appends the payload of every            *)
(* VirtualData and of the FinalVirtData to the accumulator in arrival order; *)
(* the first FinalVirtData is answered by a VirtualDataAcknowledge(0xE000)   *)
(* and nothing is read after it for this virtual packet.                     *)

C4_ReceiveUntilFinal ==
    ReceiveLog =>
        /\ bytes = DataReceived(log)
        /\ \A k \in 1..Len(log) :
              IsRx(log[k], "FinalVirtData") =>
                  /\ Len(log) <= k + 1
                  /\ k < Len(log) =>
                        log[k + 1] = Tx(VirtualDataAcknowledge(AckSentinel))
                  /\ k = Len(log) => pc = "idle" /\ result = Err(IoError)
        /\ pc = "received" =>
              Len(log) >= 2 /\ IsRx(log[Len(log) - 1], "FinalVirtData")

\* HeaderB received in three fragments or more
C4_Witness ==
    /\ ReceiveLog /\ pc = "received"
    /\ Len(log) >= 6
    /\ bytes = HeaderB

----------------------------------------------------------------------------
(* C5.  When negotiate_packet_size reads RespondBufSize(s), the session      *)
(* stores min(s, 1018): 1019 and 2000 are stored as 1018, 500 as 500.        *)

C5_ClampTo1018 ==
    pc = "negotiated" =>
        /\ IsRx(log[Len(log)], "RespondBufSize")
        /\ LET s == log[Len(log)].p.val
           IN  /\ max_raw_packet_size = Min(s, 1018)
               /\ s \in {1019, 2000} => max_raw_packet_size = 1018
               /\ s = 500 => max_raw_packet_size = 500

\* 2000 bytes were advertised and 1018 stored
C5_Witness ==
    /\ pc = "negotiated"
    /\ log[Len(log)] = Rx(RespondBufSize(2000))
    /\ max_raw_packet_size = 1018

----------------------------------------------------------------------------
(* C6.  max_raw_packet_size changes only in the step of a negotiation that   *)
(* reads a RespondBufSize and succeeds; sending and receiving virtual        *)
(* packets, waiting for an acknowledgment, answering a BufferSizeRequest and *)
(* every step that fails leave it as it was.                                 *)

C6_OnlyNegotiationChangesMax ==
    [][max_raw_packet_size' # max_raw_packet_size =>
          /\ pc = "neg_recv" /\ pc' = "negotiated"
          /\ IsRx(log'[Len(log')], "RespondBufSize")]_vars

\* with 8 bytes negotiated, a DirectoryRequest was sent, a virtual packet was
\* received and a later receive failed: the session still holds 8
C6_Witness ==
    /\ max_raw_packet_size = 8
    /\ op.name = "request_directory" /\ pc = "idle" /\ result.tag = "err"
    /\ vlog # <<>>
    /\ ReceiveLog

----------------------------------------------------------------------------
(* C7.  In the wait for an acknowledgment, a VirtualDataAcknowledge whose    *)
(* two bytes are not E0 00 ends the wait and the send with the error         *)
(* InvalidPayload: nothing is sent or read after it and send does not        *)
(* return Ok.                                                                *)

C7_BadAcknowledge ==
    SendLog =>
        \A k \in 1..Len(log) :
            (IsRx(log[k], "VirtualDataAcknowledge") /\ log[k].p.val # 57344) =>
                /\ k = Len(log)
                /\ pc = "idle"
                /\ result = Err(InvalidPayload)

\* the second fragment was answered with 00 E0
C7_Witness ==
    /\ SendLog /\ pc = "idle" /\ result = Err(InvalidPayload)
    /\ Len(DataSent(log)) = 2
    /\ log[Len(log)] = Rx(VirtualDataAcknowledge(224))

----------------------------------------------------------------------------
(* The virtual packets request_directory has received so far *)

Listing == SelectSeq(vlog, LAMBDA e : e.d = "rx")

RECURSIVE Headers(_)
Headers(l) ==
    IF l = <<>> THEN <<>>
    ELSE (IF Head(l).kind = VariableHeaderId THEN <<Head(l).body>> ELSE <<>>)
         \o Headers(Tail(l))

OnlyHeadersAndWaits(l) ==
    \A i \in 1..Len(l) : l[i].kind \in {VariableHeaderId, WaitId}

(* C8.  For every inbound sequence of VariableHeader and Wait messages, in   *)
(* any interleaving, followed by EndOfTransmission, request_directory        *)
(* returns the variables of the VariableHeader messages in arrival order:    *)
(* no VariableHeader or Wait makes it fail for the kind of the message, and  *)
(* a Wait adds nothing to the result.                                        *)

C8_DirectoryListing ==
    op.name = "request_directory" =>
        /\ OnlyHeadersAndWaits(Listing) =>
              ~(result.tag = "err" /\ result.v.e = "vtl::WrongPacketKind")
        /\ (/\ pc = "idle" /\ Listing # <<>>
            /\ Listing[Len(Listing)].kind = EndOfTransmissionId
            /\ OnlyHeadersAndWaits(SubSeq(Listing, 1, Len(Listing) - 1))) =>
              result = Ok(Headers(Listing))

----------------------------------------------------------------------------
(* C9.  When request_directory receives an Error message, the error it       *)
(* returns to its caller is the DeviceError the message carries.             *)

C9_DirectoryDeviceError ==
    (/\ op.name = "request_directory" /\ pc = "idle" /\ Listing # <<>>
     /\ Listing[Len(Listing)].kind = ErrorId) =>
        result = Err(DeviceError(Listing[Len(Listing)].body))

----------------------------------------------------------------------------
(* C10.  When the virtual packet reassembled by VirtualPacket::receive holds *)
(* the bytes its header declares and a 16-bit kind outside the catalogue     *)
(* (0xFFFF), receive returns the error UnknownPacketKindError with that kind *)
(* to the operation, which returns it: the process goes on.                  *)

C10_UnknownPacketKind ==
    (/\ ReceiveLog /\ Len(log) >= 2
     /\ IsRx(log[Len(log) - 1], "FinalVirtData")
     /\ log[Len(log)].d = "tx"
     /\ Len(bytes) >= 6
     /\ Len(bytes) >= 6 + u32_from_bytes(SubSeq(bytes, 1, 4))
     /\ u16_from_bytes(SubSeq(bytes, 5, 6)) \notin Catalogue) =>
        /\ pc = "idle"
        /\ result = Err(UnknownPacketKindError(u16_from_bytes(SubSeq(bytes, 5, 6))))

\* a virtual packet of kind 0xFFFF with one byte of payload was received
C10_Witness ==
    /\ ReceiveLog /\ pc = "idle"
    /\ bytes = <<0, 0, 0, 1, 255, 255, 7>>
    /\ result = Err(UnknownPacketKindError(65535))

----------------------------------------------------------------------------
(* RawPackets::receive on one frame, for every kind byte *)

RawPayloads == {<<>>, <<0, 0>>, <<224, 0>>, <<0, 0, 1, 244>>, <<1, 2, 3, 4, 5>>}

RawInputs == {[kind |-> k, payload |-> p] : k \in 0..255, p \in RawPayloads}

RawInit ==
    /\ max_raw_packet_size = InitialRequest
    /\ alive = FALSE
    /\ op = [name |-> "none", arg |-> 0]
    /\ stage = "returned"
    /\ pc = "off"
    /\ packets = <<>>
    /\ depth = 0
    /\ bytes = <<>>
    /\ ret = None
    /\ variables = <<>>
    /\ result = None
    /\ log = <<>>
    /\ vlog = <<>>
    /\ dev = <<>>
    /\ ops = 0
    /\ buffer = <<>>
    /\ t_in \in RawInputs
    /\ t_wire = <<>> /\ t_acc = <<>> /\ t_out = None /\ t_pc = "raw"

\* the frame arrives and RawPackets::receive reads it
RawDecode ==
    /\ t_pc = "raw"
    /\ t_wire' = <<Frame(t_in.kind, t_in.payload)>>
    /\ t_out' = RawReceive(Frame(t_in.kind, t_in.payload))
    /\ t_pc' = "done"
    /\ UNCHANGED <<t_in, t_acc>>
    /\ UNCHANGED svars

RawNext == RawDecode

RawSpec == RawInit /\ [][RawNext]_vars

----------------------------------------------------------------------------
(* C11.  The payload VirtualPacket::receive hands to the decoder is the      *)
(* `length` bytes after the 6-byte header, `length` being the value the      *)
(* header declares: bytes of the reassembled stream after them are left out, *)
(* however many were received.                                               *)

C11_DeclaredLength ==
    (pc = "received" /\ ret.tag = "ok") =>
        LET length == u32_from_bytes(SubSeq(bytes, 1, 4))
        IN  /\ 6 + length <= Len(bytes)
            /\ ret.v.kind = VariableContentsId =>
                  /\ Len(ret.v.body) = length
                  /\ ret.v.body = SubSeq(bytes, 7, 6 + length)
            /\ ret.v.kind = EndOfTransmissionId => length = 0

\* three bytes declared, five received after the header
C11_Witness ==
    /\ pc = "received" /\ ret.tag = "ok"
    /\ bytes = <<0, 0, 0, 3, 0, 13, 3, 4, 5, 9, 9>>
    /\ ret.v.body = <<3, 4, 5>>

----------------------------------------------------------------------------
(* C12.  For every virtual packet and max size M >= 1, into_raw_packets      *)
(* emits at least one raw packet, no payload is longer than M, the last      *)
(* packet and only the last is a FinalVirtData, the others are VirtualData,  *)
(* and the payloads concatenated are [length: u32 BE][kind: u16 BE][payload].*)

Emitted == t_pc = "reassemble" /\ t_acc = <<>>

----------------------------------------------------------------------------
(* C16.  RawPackets::receive of a frame whose kind byte is 0 or 6..255       *)
(* fails with raw::UnknownPacketKindError carrying that byte; 1..5 are never *)
(* refused as unknown, and the packet made of one is of the kind of that     *)
(* byte.                                                                     *)

C16_RawKindByte ==
    t_pc = "done" =>
        /\ t_in.kind \notin 1..5 =>
              t_out = Err([e |-> "raw::UnknownPacketKindError", code |-> t_in.kind])
        /\ t_in.kind \in 1..5 =>
              /\ ~(t_out.tag = "err" /\ t_out.v.e = "raw::UnknownPacketKindError")
              /\ Len(t_in.payload) >= 4 => t_out.tag = "ok"
              /\ t_out.tag = "ok" =>
                    t_out.v.kind = <<"RequestBufSize", "RespondBufSize", "VirtualData",
                                     "FinalVirtData", "VirtualDataAcknowledge">>[t_in.kind]

\* kind byte 255 was refused
C16_Witness ==
    /\ t_pc = "done" /\ t_in.kind = 255
    /\ t_out = Err(RawUnknownPacketKindError(255))

----------------------------------------------------------------------------
(* C13.  negotiate_packet_size(requested) sends one RequestBufSize carrying  *)
(* `requested` and nothing else; when the raw packet read next is not a      *)
(* RespondBufSize the operation fails with raw::WrongPacketKind, expected    *)
(* BufSizeAlloc and received the kind that came, and max_raw_packet_size     *)
(* stays as it was.                                                          *)

NegotiationLog == log # <<>> /\ IsTx(log[1], "RequestBufSize")

\* the size the running negotiation asks for
Requested ==
    IF op.name \in {"new", "negotiate_packet_size"} THEN op.arg
    ELSE max_raw_packet_size

OtherThan(e, kinds) ==
    e.d = "rx" /\ e.p.kind \in
        {"RequestBufSize", "RespondBufSize", "VirtualData", "FinalVirtData",
         "VirtualDataAcknowledge"} \ kinds

C13_NegotiationMismatch ==
    /\ [](NegotiationLog =>
            /\ Len(log) <= 2
            /\ pc = "neg_recv" => log = <<Tx(RequestBufSize(Requested))>>
            /\ (Len(log) = 2 /\ OtherThan(log[2], {"RespondBufSize"})) =>
                  /\ pc \in {"idle", "failed"}
                  /\ result = Err([e |-> "raw::WrongPacketKind",
                                   expected |-> "BufSizeAlloc",
                                   received |-> RawKind(log[2].p)]))
    /\ [][(pc = "neg_recv" /\ OtherThan(log'[Len(log')], {"RespondBufSize"})) =>
             max_raw_packet_size' = max_raw_packet_size]_vars

\* a renegotiation with 500 bytes stored was answered by an acknowledgment
C13_Witness ==
    /\ NegotiationLog /\ op.name # "new"
    /\ max_raw_packet_size = 500
    /\ log[Len(log)] = Rx(VirtualDataAcknowledge(AckSentinel))
    /\ result = Err(RawWrongPacketKind("BufSizeAlloc", "VirtDataAck"))

----------------------------------------------------------------------------
(* C14.  In the wait for an acknowledgment, a RespondBufSize, a VirtualData  *)
(* or a FinalVirtData read ends the wait with raw::WrongPacketKind, expected *)
(* VirtDataAck and received the kind that came.                              *)

C14_WaitMismatch ==
    SendLog =>
        \A k \in 1..Len(log) :
            OtherThan(log[k], {"RequestBufSize", "VirtualDataAcknowledge"}) =>
                /\ k = Len(log)
                /\ pc = "idle"
                /\ result = Err([e |-> "raw::WrongPacketKind",
                                 expected |-> "VirtDataAck",
                                 received |-> RawKind(log[k].p)])

\* the first fragment was answered by a RespondBufSize
C14_Witness ==
    /\ SendLog /\ Len(log) = 2 /\ pc = "idle"
    /\ IsRx(log[2], "RespondBufSize")
    /\ result = Err(RawWrongPacketKind("VirtDataAck", "BufSizeAlloc"))

----------------------------------------------------------------------------
(* C15.  While receive_bytes collects the fragments of a virtual packet, a   *)
(* raw packet that is neither VirtualData nor FinalVirtData ends the receive *)
(* with raw::WrongPacketKind naming the kind that came: nothing is sent      *)
(* after it and the operation gets no virtual packet.                        *)

C15_CollectMismatch ==
    ReceiveLog =>
        \A k \in 1..Len(log) :
            OtherThan(log[k], {"VirtualData", "FinalVirtData"}) =>
                /\ k = Len(log)
                /\ pc = "idle" /\ ret = None
                /\ result.tag = "err"
                /\ result.v.e = "raw::WrongPacketKind"
                /\ result.v.received = RawKind(log[k].p)

\* after two fragments came a BufferSizeRequest
C15_Witness ==
    /\ ReceiveLog /\ Len(log) = 5 /\ pc = "idle"
    /\ IsRx(log[5], "RequestBufSize")
    /\ result.tag = "err" /\ result.v.e = "raw::WrongPacketKind"

----------------------------------------------------------------------------
(* What the operation did so far, by vlog: negotiations, virtual packets     *)
(* sent and virtual packets received, in order.                              *)

\* a negotiation with its answer, then the request sent, then one packet read
NegotiateSendReceive(kind) ==
    /\ Len(vlog) \in 1..4
    /\ vlog[1].d = "negotiate"
    /\ Len(vlog) >= 2 => vlog[2].d = "negotiated"
    /\ Len(vlog) >= 3 => vlog[3].d = "tx" /\ vlog[3].kind = kind /\ vlog[3].body = op.arg
    /\ Len(vlog) = 4 => vlog[4].d = "rx"

\* the raw packets of a negotiation that came to its end
Negotiated ==
    /\ Len(log) = 2
    /\ log[1] = Tx(RequestBufSize(vlog[1].body))
    /\ IsRx(log[2], "RespondBufSize")

Returned == stage = "returned" /\ result.tag # "none"

----------------------------------------------------------------------------
(* C17.  Calculator::set_mode(mode) first negotiates the buffer size         *)
(* (BufferSizeRequest sent, BufferSizeResponse read), then sends the SetMode *)
(* virtual packet, then receives one virtual packet.  It returns Ok only     *)
(* when that packet is SetModeAcknowledge, and vtl::WrongPacketKind          *)
(* (expected SetModeAcknowledge) for a packet of any other kind.  When the   *)
(* negotiation fails, no SetMode is sent.                                    *)

C17_SetMode ==
    op.name = "set_mode" =>
        /\ NegotiateSendReceive(SetModeId)
        /\ pc = "negotiated" => Negotiated
        /\ Returned =>
              /\ result.tag = "ok" =>
                    Len(vlog) = 4 /\ vlog[4].kind = SetModeAcknowledgeId
              /\ (Len(vlog) = 4 /\ vlog[4].kind # SetModeAcknowledgeId) =>
                    /\ result.tag = "err"
                    /\ result.v = WrongPacketKind(SetModeAcknowledgeId, vlog[4].kind)
              /\ Len(vlog) = 4 => result.tag \in {"ok", "err"}

\* the mode was set and acknowledged
C17_Witness ==
    /\ op.name = "set_mode" /\ Returned /\ result.tag = "ok"
    /\ Len(vlog) = 4 /\ vlog[3].body = 3 /\ vlog[4].kind = SetModeAcknowledgeId

----------------------------------------------------------------------------
(* C18.  Calculator::request_parameters(ids) first negotiates the buffer     *)
(* size, then sends one ParameterRequest(ids), then receives one virtual     *)
(* packet.  It returns the parameters decoded from that packet when it is a  *)
(* ParameterResponse, and vtl::WrongPacketKind (expected ParameterResponse)  *)
(* for a packet of any other kind.                                           *)

C18_RequestParameters ==
    op.name = "request_parameters" =>
        /\ NegotiateSendReceive(ParameterRequestId)
        /\ pc = "negotiated" => Negotiated
        /\ Returned =>
              /\ result.tag = "ok" =>
                    /\ Len(vlog) = 4 /\ vlog[4].kind = ParameterResponseId
                    /\ result.v = vlog[4].body
              /\ (Len(vlog) = 4 /\ vlog[4].kind # ParameterResponseId) =>
                    /\ result.tag = "err"
                    /\ result.v = WrongPacketKind(ParameterResponseId, vlog[4].kind)
              /\ Len(vlog) = 4 => result.tag \in {"ok", "err"}

\* ScreenWidth and ScreenHeight were asked for; the answer held ScreenWidth = 320
C18_Witness ==
    /\ op.name = "request_parameters" /\ Returned /\ result.tag = "ok"
    /\ op.arg = <<ScreenWidthId, ScreenHeightId>>
    /\ result.v = <<[kind |-> ScreenWidthId, value |-> 320]>>

----------------------------------------------------------------------------
(* C19.  Calculator::request_variable(name) sends one RequestVariable and    *)
(* then receives at most two virtual packets.  The first must be a           *)
(* VariableHeader: an Error there is returned as that device error, any      *)
(* other kind as vtl::WrongPacketKind (expected VariableHeader).  The second *)
(* is read only after a VariableHeader; when it is a VariableContents the    *)
(* result is its payload decoded by the kind the header's Kind attribute     *)
(* names, and any other kind gives vtl::WrongPacketKind (expected            *)
(* VariableContents).                                                        *)

C19_RequestVariable ==
    op.name = "request_variable" =>
        /\ Len(vlog) <= 3
        /\ Len(vlog) >= 1 => vlog[1] = [d |-> "tx", kind |-> RequestVariableId,
                                        body |-> RequestVariable(op.arg).body]
        /\ Len(vlog) >= 2 => vlog[2].d = "rx"
        /\ Len(vlog) = 3 => vlog[3].d = "rx" /\ vlog[2].kind = VariableHeaderId
        /\ Returned =>
              /\ result.tag = "ok" =>
                    Len(vlog) = 3 /\ vlog[3].kind = VariableContentsId
              /\ (Len(vlog) = 2 /\ vlog[2].kind = ErrorId) =>
                    result.tag = "err" /\ result.v = DeviceError(vlog[2].body)
              /\ (Len(vlog) = 2 /\ vlog[2].kind \notin {ErrorId, VariableHeaderId}) =>
                    /\ result.tag = "err"
                    /\ result.v = WrongPacketKind(VariableHeaderId, vlog[2].kind)
              /\ (Len(vlog) = 3 /\ vlog[3].kind = VariableContentsId) =>
                    result = VariableContents_from_payload(
                                 Head(KindsOf(vlog[2].body)).value, vlog[3].body)
              /\ (Len(vlog) = 3 /\ vlog[3].kind # VariableContentsId) =>
                    /\ result.tag = "err"
                    /\ result.v = WrongPacketKind(VariableContentsId, vlog[3].kind)

\* the header of B said String, and the contents were decoded as the string "A"
C19_Witness ==
    /\ op.name = "request_variable" /\ Returned
    /\ Len(vlog) = 3 /\ vlog[2].kind = VariableHeaderId /\ vlog[2].body = VariableB
    /\ vlog[3].kind = VariableContentsId /\ vlog[3].body = <<1, 0, 65>>
    /\ result = Ok([kind |-> "String", value |-> <<65>>])

----------------------------------------------------------------------------
(* C20.  Calculator::send_variable(header, contents) sends                   *)
(* RequestToSend(header), then VariableContents(encoded contents), then      *)
(* receives one virtual packet, and sends EndOfTransmission only after that  *)
(* packet was the application-level acknowledgment; with any other packet    *)
(* received no EndOfTransmission is sent and the operation returns an error. *)

C20_SendVariable ==
    op.name = "send_variable" =>
        /\ Len(vlog) \in 1..4
        /\ vlog[1] = [d |-> "tx", kind |-> RequestToSendId, body |-> op.arg.header]
        /\ Len(vlog) >= 2 =>
              vlog[2] = [d |-> "tx", kind |-> VariableContentsId,
                         body |-> VariableContents_into_payload(op.arg.contents)]
        /\ Len(vlog) >= 3 => vlog[3].d = "rx"
        /\ Len(vlog) = 4 =>
              /\ vlog[3].kind = DataAcknowledgeId
              /\ vlog[4] = [d |-> "tx", kind |-> EndOfTransmissionId, body |-> <<>>]
        /\ Returned =>
              /\ result.tag = "ok" => Len(vlog) = 4
              /\ (Len(vlog) = 3 /\ vlog[3].kind # DataAcknowledgeId) =>
                    /\ result.tag = "err"
                    /\ result.v = WrongPacketKind(DataAcknowledgeId, vlog[3].kind)

----------------------------------------------------------------------------
(* C21.  In every operation of the session a protocol mismatch, a packet of  *)
(* a kind the operation does not expect at that step, ends the operation     *)
(* with a typed error returned to the caller: the process is not aborted,    *)
(* the request is not sent again and the operation sends nothing after the   *)
(* mismatch.                                                                 *)

\* the kinds of virtual packet an operation takes at one step or another
ExpectedKinds(name) ==
    CASE name = "set_mode" -> {SetModeAcknowledgeId}
      [] name = "request_parameters" -> {ParameterResponseId}
      [] name = "request_directory" ->
            {VariableHeaderId, WaitId, EndOfTransmissionId, ErrorId}
      [] name = "request_variable" -> {VariableHeaderId, VariableContentsId, ErrorId}
      [] name = "send_variable" -> {DataAcknowledgeId}
      [] OTHER -> {}

\* the reassembled bytes hold a header and the payload the header declares
WellFormed(b) == Len(b) >= 6 /\ Len(b) >= 6 + u32_from_bytes(Slice(b, 0, 4))

\* the operation ended on a receive that brought a whole virtual packet of the
\* catalogue, of a kind the operation never takes; the last fragment was
\* acknowledged and nothing was sent since
VirtualMismatch ==
    /\ pc \in {"idle", "aborted"} /\ ReceiveLog /\ Len(log) >= 2
    /\ IsRx(log[Len(log) - 1], "FinalVirtData")
    /\ IsTx(log[Len(log)], "VirtualDataAcknowledge")
    /\ WellFormed(bytes)
    /\ u16_from_bytes(Slice(bytes, 4, 6)) \in Catalogue \ ExpectedKinds(op.name)

\* the operation ended on a raw packet of a kind the step does not take
RawMismatch ==
    /\ pc \in {"idle", "aborted", "failed"} /\ log # <<>>
    /\ OtherThan(log[Len(log)],
                 IF NegotiationLog THEN {"RespondBufSize"}
                 ELSE IF SendLog THEN {"RequestBufSize", "VirtualDataAcknowledge"}
                 ELSE {"VirtualData", "FinalVirtData"})

C21_TypedError ==
    /\ VirtualMismatch =>
          /\ result.tag = "err"
          /\ result.v.e = "vtl::WrongPacketKind"
          /\ result.v.received = u16_from_bytes(Slice(bytes, 4, 6))
          /\ Len(SelectSeq(vlog, LAMBDA e : e.d = "tx")) = 1
    /\ RawMismatch => result.tag = "err"

----------------------------------------------------------------------------
(* The encoders and decoders on their own: VirtualPacket::into_payload,      *)
(* VirtualPacket::from_payload, the header parsing of VirtualPacket::receive *)
(* and RawPackets::send followed by RawPackets::receive, each applied to one *)
(* input.                                                                    *)

MaxIds == 3          \* ids in a DirectoryRequest or a ParameterRequest
MaxEntries == 2      \* entries in a ParameterResponse
MaxDeclared == 3     \* payload bytes a reassembled packet declares or holds

\* all sequences of at most n elements of S
SeqsUpTo(S, n) == UNION {[1..k -> S] : k \in 0..n}

\* the modes of dusb::Mode as u16: Startup, Basic, Normal
ModeIds == {1, 2, 3}

\* the entries of a ParameterResponse: ScreenWidth = 320, ScreenHeight = 240,
\* and the two without a value
Entries ==
    {[id |-> ScreenWidthId, valid |-> 0, data |-> <<1, 64>>],
     [id |-> ScreenHeightId, valid |-> 0, data |-> <<0, 240>>],
     [id |-> ScreenHeightId, valid |-> 1, data |-> <<>>],
     [id |-> ScreenWidthId, valid |-> 7, data |-> <<>>]}

\* the bytes of the entries, as the calculator sends them
RECURSIVE EntryBytes(_)
EntryBytes(es) ==
    IF es = <<>> THEN <<>>
    ELSE LET e == Head(es)
         IN  U16BE(e.id) \o <<e.valid>>
             \o (IF e.valid = 0 THEN U16BE(Len(e.data)) \o e.data ELSE <<>>)
             \o EntryBytes(Tail(es))

ParameterResponseBytes(es) == U16BE(Len(es)) \o EntryBytes(es)

\* codes an Error packet may carry: those of DeviceError and some others
ErrorCodes == DeviceErrorCodes \cup {0, 1, 5, 255, 256, 65535}

EncodeInputs ==
    {[f |-> "into_payload", kind |-> DirectoryRequestId, arg |-> ids] :
        ids \in SeqsUpTo({SizeId, KindId, 258}, MaxIds)} \cup
    {[f |-> "into_payload", kind |-> ParameterRequestId, arg |-> ids] :
        ids \in SeqsUpTo(ParameterKinds, MaxIds)} \cup
    {[f |-> "into_payload", kind |-> SetModeId, arg |-> <<mode>>] : mode \in ModeIds}

DecodeInputs ==
    {[f |-> "from_payload", kind |-> ParameterResponseId,
      arg |-> ParameterResponseBytes(es)] : es \in SeqsUpTo(Entries, MaxEntries)} \cup
    {[f |-> "from_payload", kind |-> ErrorId, arg |-> U16BE(code)] :
        code \in ErrorCodes}

\* reassembled bytes: a header declaring L bytes followed by A bytes, and
\* streams too short to hold a header
ParseInputs ==
    {[f |-> "receive", kind |-> 0, arg |-> U32BE(L) \o U16BE(k) \o Pattern(A, 0)] :
        L \in 0..MaxDeclared, A \in 0..MaxDeclared,
        k \in {VariableContentsId, EndOfTransmissionId, 65535}} \cup
    {[f |-> "receive", kind |-> 0, arg |-> Pattern(n, 1)] : n \in 0..5}

\* raw packets, by kind byte: the number of a RequestBufSize, RespondBufSize or
\* VirtualDataAcknowledge, the payload of a VirtualData or FinalVirtData
RawEchoInputs ==
    {[f |-> "raw", kind |-> k, arg |-> <<x>>] :
        k \in {1, 2}, x \in {0, 4, 1018, 1019, 1024, 65536, 2147483647}} \cup
    {[f |-> "raw", kind |-> 5, arg |-> <<x>>] : x \in {0, 224, AckSentinel, 65535}} \cup
    {[f |-> "raw", kind |-> k, arg |-> Pattern(L, 0)] : k \in {3, 4}, L \in 0..MaxLen}

\* the RawPackets value of an input
RawPacketOf(in) ==
    CASE in.kind = 1 -> RequestBufSize(in.arg[1])
      [] in.kind = 2 -> RespondBufSize(in.arg[1])
      [] in.kind = 3 -> VirtualData(in.arg)
      [] in.kind = 4 -> FinalVirtData(in.arg)
      [] in.kind = 5 -> VirtualDataAcknowledge(in.arg[1])

PayloadInit ==
    /\ max_raw_packet_size = InitialRequest
    /\ alive = FALSE
    /\ op = [name |-> "none", arg |-> 0]
    /\ stage = "returned"
    /\ pc = "off"
    /\ packets = <<>>
    /\ depth = 0
    /\ bytes = <<>>
    /\ ret = None
    /\ variables = <<>>
    /\ result = None
    /\ log = <<>>
    /\ vlog = <<>>
    /\ dev = <<>>
    /\ ops = 0
    /\ buffer = <<>>
    /\ t_in \in EncodeInputs \cup DecodeInputs \cup ParseInputs \cup RawEchoInputs
    /\ t_wire = <<>> /\ t_acc = <<>> /\ t_out = None /\ t_pc = "payload"

\* VirtualPacket::into_payload
Encode ==
    /\ t_pc = "payload" /\ t_in.f = "into_payload"
    /\ t_out' = into_payload(VirtualPacket(t_in.kind,
                                           IF t_in.kind = SetModeId THEN t_in.arg[1]
                                           ELSE t_in.arg))
    /\ t_pc' = "done"
    /\ UNCHANGED <<t_in, t_wire, t_acc>>
    /\ UNCHANGED svars

\* VirtualPacket::from_payload
Decode ==
    /\ t_pc = "payload" /\ t_in.f = "from_payload"
    /\ t_out' = from_payload(t_in.kind, t_in.arg)
    /\ t_pc' = "done"
    /\ UNCHANGED <<t_in, t_wire, t_acc>>
    /\ UNCHANGED svars

\* VirtualPacket::receive once receive_bytes returned the bytes
Parse ==
    /\ t_pc = "payload" /\ t_in.f = "receive"
    /\ t_acc' = t_in.arg
    /\ t_out' = receive(t_in.arg)
    /\ t_pc' = "done"
    /\ UNCHANGED <<t_in, t_wire>>
    /\ UNCHANGED svars

\* RawPackets::send, then RawPackets::receive of the bytes sent
RawEcho ==
    /\ t_pc = "payload" /\ t_in.f = "raw"
    /\ t_wire' = <<RawSendBytes(RawPacketOf(t_in))>>
    /\ t_out' = RawReceive(RawSendBytes(RawPacketOf(t_in)))
    /\ t_pc' = "done"
    /\ UNCHANGED <<t_in, t_acc>>
    /\ UNCHANGED svars

PayloadNext == Encode \/ Decode \/ Parse \/ RawEcho

PayloadSpec == PayloadInit /\ [][PayloadNext]_vars

----------------------------------------------------------------------------
(* C22.  from_payload of a ParameterResponse that declares n entries gives   *)
(* the parameters of the entries whose validity byte is 0, in the order of   *)
(* the wire, and nothing for the others, of which only the id and the        *)
(* validity byte are consumed: at most n parameters.  The two entries        *)
(* ScreenWidth = 320 and ScreenHeight without a value give one parameter.    *)

\* the parameters of the entries that have a value
RECURSIVE ValidParameters(_)
ValidParameters(es) ==
    IF es = <<>> THEN <<>>
    ELSE (IF Head(es).valid = 0
          THEN <<[kind |-> Head(es).id, value |-> u16_from_bytes(Head(es).data)]>>
          ELSE <<>>) \o ValidParameters(Tail(es))

C22_ParameterResponse ==
    (t_pc = "done" /\ t_in.f = "from_payload" /\ t_in.kind = ParameterResponseId) =>
        \A es \in SeqsUpTo(Entries, MaxEntries) :
            t_in.arg = ParameterResponseBytes(es) =>
                /\ t_out.tag = "ok"
                /\ t_out.v.kind = ParameterResponseId
                /\ t_out.v.body = ValidParameters(es)
                /\ Len(t_out.v.body) <= Len(es)

\* ScreenWidth = 320 with a value, ScreenHeight without: one parameter
C22_Witness ==
    /\ t_pc = "done" /\ t_in.f = "from_payload"
    /\ t_in.arg = <<0, 2, 0, 30, 0, 0, 2, 1, 64, 0, 31, 1>>
    /\ t_out.tag = "ok"
    /\ t_out.v.body = <<[kind |-> ScreenWidthId, value |-> 320]>>

----------------------------------------------------------------------------
(* C23.  into_payload of DirectoryRequest(ids) is the count of ids on 4      *)
(* bytes, big-endian, then every id on 2 bytes, big-endian, in the order of  *)
(* the list, then 00 01 00 01 00 01 01: 4 + 2 * count + 7 bytes.             *)
(* DirectoryRequest([Size, Kind]) gives                                      *)
(* 00 00 00 02 00 01 00 02 00 01 00 01 00 01 01.                             *)

C23_DirectoryRequest ==
    (t_pc = "done" /\ t_in.f = "into_payload" /\ t_in.kind = DirectoryRequestId) =>
        LET ids == t_in.arg
            n == Len(ids)
        IN  /\ t_out.tag = "ok"
            /\ Len(t_out.v) = 4 + 2 * n + 7
            /\ SubSeq(t_out.v, 1, 4) = <<0, 0, 0, n>>
            /\ \A i \in 1..n :
                  /\ t_out.v[4 + 2 * i - 1] = ids[i] \div 256
                  /\ t_out.v[4 + 2 * i] = ids[i] % 256
            /\ SubSeq(t_out.v, 4 + 2 * n + 1, 4 + 2 * n + 7) = <<0, 1, 0, 1, 0, 1, 1>>
            /\ ids = <<SizeId, KindId>> =>
                  t_out.v = <<0, 0, 0, 2, 0, 1, 0, 2, 0, 1, 0, 1, 0, 1, 1>>

\* [Size, Kind] was encoded
C23_Witness ==
    /\ t_pc = "done" /\ t_in.f = "into_payload" /\ t_in.kind = DirectoryRequestId
    /\ t_in.arg = <<SizeId, KindId>>
    /\ t_out.tag = "ok" /\ Len(t_out.v) = 15

----------------------------------------------------------------------------
(* C24.  into_payload of SetMode(mode) is 10 bytes,                          *)
(* 00 mode-id 00 01 00 00 00 00 07 d0, with mode-id 1 for Startup, 2 for     *)
(* Basic and 3 for Normal: only the second byte depends on the mode.         *)

C24_SetModeBytes ==
    (t_pc = "done" /\ t_in.f = "into_payload" /\ t_in.kind = SetModeId) =>
        /\ t_out.tag = "ok"
        /\ t_out.v = <<0, t_in.arg[1], 0, 1, 0, 0, 0, 0, 7, 208>>

\* the same with 7d d0 for the last two bytes
C24_SetModeBytes7dd0 ==
    (t_pc = "done" /\ t_in.f = "into_payload" /\ t_in.kind = SetModeId) =>
        /\ t_out.tag = "ok"
        /\ t_out.v = <<0, t_in.arg[1], 0, 1, 0, 0, 0, 0, 125, 208>>

\* Normal was encoded
C24_Witness ==
    /\ t_pc = "done" /\ t_in.f = "into_payload" /\ t_in.kind = SetModeId
    /\ t_in.arg = <<3>>
    /\ t_out.tag = "ok" /\ t_out.v = <<0, 3, 0, 1, 0, 0, 0, 0, 7, 208>>

----------------------------------------------------------------------------
(* C25.  from_payload of an Error packet whose 16-bit code is one of         *)
(* DeviceError gives the Error of that code; with any other code it fails    *)
(* with an UnknownDeviceError returned to the caller.                        *)

C25_ErrorCode ==
    (t_pc = "done" /\ t_in.f = "from_payload" /\ t_in.kind = ErrorId) =>
        LET code == u16_from_bytes(t_in.arg)
        IN  IF code \in DeviceErrorCodes
            THEN /\ t_out.tag = "ok"
                 /\ t_out.v.kind = ErrorId /\ t_out.v.body = code
            ELSE /\ t_out.tag = "err"
                 /\ t_out.v.e = "UnknownDeviceError"

----------------------------------------------------------------------------
(* C26.  RawPackets::send emits [length: 4 bytes big-endian][kind: 1 byte]   *)
(* [payload], the length being the number of payload bytes emitted;          *)
(* RawPackets::receive of these bytes reads that many payload bytes, no      *)
(* more, and gives the packet that was sent.                                 *)

\* the payload bytes of a raw packet
RawPayloadOf(in) ==
    CASE in.kind \in {1, 2} ->
            <<in.arg[1] \div 16777216, (in.arg[1] \div 65536) % 256,
              (in.arg[1] \div 256) % 256, in.arg[1] % 256>>
      [] in.kind = 5 -> <<in.arg[1] \div 256, in.arg[1] % 256>>
      [] OTHER -> in.arg

C26_SendReceive ==
    (t_pc = "done" /\ t_in.f = "raw") =>
        LET w == t_wire[1]
            n == Len(RawPayloadOf(t_in))
        IN  /\ Len(w) = 5 + n
            /\ SubSeq(w, 1, 4) = <<0, 0, n \div 256, n % 256>>
            /\ w[5] = t_in.kind
            /\ SubSeq(w, 6, Len(w)) = RawPayloadOf(t_in)
            /\ t_out.tag = "ok" /\ t_out.v = RawPacketOf(t_in)
            /\ RawReceive(w \o <<9, 9>>) = t_out

\* a FinalVirtData of 13 bytes went out and came back
C26_Witness ==
    /\ t_pc = "done" /\ t_in.f = "raw" /\ t_in.kind = 4 /\ Len(t_in.arg) = 13
    /\ Len(t_wire[1]) = 18
    /\ t_out.tag = "ok" /\ t_out.v = FinalVirtData(t_in.arg)

----------------------------------------------------------------------------
(* C27.  VirtualPacket::receive of reassembled bytes that are fewer than 6,  *)
(* or that hold fewer payload bytes after the 6 of the header than the       *)
(* header declares, fails with a typed error for the operation: the process  *)
(* is not aborted.                                                           *)

\* fewer than 6 bytes, or fewer bytes than declared after them
Truncated(b) ==
    \/ Len(b) < 6
    \/ Len(b) - 6 < u32_from_bytes(Slice(b, 0, 4))

C27_Malformed ==
    (t_pc = "done" /\ t_in.f = "receive" /\ Truncated(t_in.arg)) => t_out.tag = "err"

----------------------------------------------------------------------------
(* C28.  The first BufferSizeRequest of a session, the one Calculator::new   *)
(* sends, asks for 1024 bytes.                                               *)

DFL_BUF_SIZE == 1024                     \* dusb.rs:8

C28_FirstRequest ==
    (op.name = "new" /\ log # <<>>) => log[1] = Tx(RequestBufSize(DFL_BUF_SIZE))

----------------------------------------------------------------------------
(* C29.  The wait for an acknowledgment handles the BufferSizeRequests that  *)
(* precede it in a loop: however many it has answered, the wait is not       *)
(* nested in another wait; each request read has been answered by one        *)
(* BufferSizeResponse when the wait reads again, and the wait is over when   *)
(* the acknowledgment 0xe000 is read.                                        *)

\* the raw packets of the current wait: those after the last fragment sent
RECURSIVE ThisWait(_)
ThisWait(l) ==
    IF l = <<>> \/ IsDataTx(l[Len(l)]) THEN <<>>
    ELSE Append(ThisWait(SubSeq(l, 1, Len(l) - 1)), l[Len(l)])

RequestsIn(l) == Len(SelectSeq(l, LAMBDA e : IsRx(e, "RequestBufSize")))
ResponsesIn(l) == Len(SelectSeq(l, LAMBDA e : IsTx(e, "RespondBufSize")))

C29_Answered ==
    (SendLog /\ pc = "wait_ack") =>
        /\ ResponsesIn(ThisWait(log)) = RequestsIn(ThisWait(log))
        /\ AcksIn(ThisWait(log)) = 0

C29_BoundedNesting ==
    /\ C29_Answered
    /\ (SendLog /\ pc = "wait_ack") => depth = 0

----------------------------------------------------------------------------
(* The byte stream under the raw packets: impl Read for Calculator           *)
(* (main.rs:222-265).  read serves the caller from the read-ahead buffer and *)
(* fills the buffer with one bulk transfer of the transport.                 *)

BufferCapacity == 1024    \* main.rs:241
MaxRequest == 4           \* largest buf.len() a caller passes
MaxChunk == 3             \* largest bulk transfer the calculator makes
MaxStream == 5            \* bytes the calculator sends in all
MaxReads == 4             \* calls of read
ReadMaxSizes == {2, ClampCeiling}     \* negotiated sizes the session reads under

Zeros(n) == [i \in 1..n |-> 0]

\* the bytes the calculator sends are numbered from 1 in the order it sends them
StreamBytes(from, c) == [i \in 1..c |-> from + i]

\* read_bulk into the 1024 bytes of the buffer: c bytes arrive, or (c < 0) the
\* transfer fails
read_bulk(sent, c) == IF c < 0 THEN Err(IoError) ELSE Ok(StreamBytes(sent, c))

\* a read that fetches from the transport whenever the buffer cannot serve the
\* whole request
RECURSIVE read_refill(_, _, _, _)
read_refill(buf, max, n, bulk) ==
    IF n > max THEN read_refill(buf, max, max, bulk)
    ELSE IF n > Len(buf)
    THEN IF bulk.tag = "err"
         THEN [buffer |-> buf, out |-> Err(IoError), bulk |-> TRUE]
         ELSE LET filled == buf \o bulk.v
              IN  IF n > Len(filled)
                  THEN [buffer |-> <<>>, out |-> Ok(filled), bulk |-> TRUE]
                  ELSE [buffer |-> SubSeq(filled, n + 1, Len(filled)),
                        out |-> Ok(SubSeq(filled, 1, n)), bulk |-> TRUE]
    ELSE [buffer |-> SubSeq(buf, n + 1, Len(buf)),
          out |-> Ok(SubSeq(buf, 1, n)), bulk |-> FALSE]

\* Calculator::read with buf.len() = n: the buffer after it, what it returns
\* (the bytes copied to the caller) and whether it called read_bulk
RECURSIVE read(_, _, _, _)
read(buf, max, n, bulk) ==
    IF n > Len(buf) /\ buf # <<>>                                  \* main.rs:228-234
    THEN [buffer |-> <<>>, out |-> Ok(buf), bulk |-> FALSE]
    ELSE IF n > max THEN read(buf, max, max, bulk)                 \* main.rs:236-238
    ELSE IF buf = <<>> /\ bulk.tag = "err"                         \* main.rs:240-249
    THEN [buffer |-> Zeros(BufferCapacity), out |-> Err(IoError), bulk |-> TRUE]
    ELSE LET filled == IF buf = <<>> THEN bulk.v ELSE buf          \* main.rs:250
         IN  IF n > Len(filled)                                    \* split_at panics
             THEN [buffer |-> filled, out |-> Panic, bulk |-> buf = <<>>]
             ELSE [buffer |-> SubSeq(filled, n + 1, Len(filled)),  \* main.rs:253-259
                   out |-> Ok(SubSeq(filled, 1, n)), bulk |-> buf = <<>>]

RECURSIVE Flatten(_)
Flatten(ss) == IF ss = <<>> THEN <<>> ELSE Head(ss) \o Flatten(Tail(ss))

\* bytes the transport has handed over so far
Transferred == Len(Flatten(t_wire))

ReadInit ==
    /\ max_raw_packet_size \in ReadMaxSizes
    /\ alive = TRUE
    /\ op = [name |-> "none", arg |-> 0]
    /\ stage = "returned"
    /\ pc = "off"
    /\ packets = <<>>
    /\ depth = 0
    /\ bytes = <<>>
    /\ ret = None
    /\ variables = <<>>
    /\ result = None
    /\ log = <<>>
    /\ vlog = <<>>
    /\ dev = <<>>
    /\ ops = 0
    /\ buffer = <<>>
    /\ t_in = [f |-> "read", n |-> 0, calls |-> 0, bulks |-> 0, fails |-> 0,
               exact |-> 0, got |-> <<>>, steps |-> 0, res |-> "none"]
    /\ t_wire = <<>>
    /\ t_acc = <<>>
    /\ t_out = None
    /\ t_pc = "read"

\* One call of Calculator::read with buf.len() = n, by a caller at position at.
\* t_in counts the calls, the read_bulk calls and the failed ones, and holds the
\* read_exact in progress or just ended (its size, bytes, reads and result); t_wire holds
\* the transfers that arrived, t_acc the bytes returned to the callers so far,
\* t_out what this call returned.
ReadCall(n, c, at) ==
    LET bulk == read_bulk(Transferred, c)
        r == read(buffer, max_raw_packet_size, n, bulk)
        got == CASE at # "exact" -> <<>>
                 [] r.out.tag = "ok" -> t_in.got \o r.out.v
                 [] OTHER -> t_in.got
        \* read_exact: Ok(0) ends it with UnexpectedEof, an error is passed on,
        \* a full buffer ends it with Ok
        res == CASE at # "exact" -> "none"
                 [] r.out.tag = "panic" -> "panic"
                 [] r.out.tag = "err" -> "err"
                 [] r.out.v = <<>> -> "eof"
                 [] Len(got) = t_in.exact -> "ok"
                 [] OTHER -> "none"
    IN  /\ buffer' = r.buffer
        /\ t_in' = [t_in EXCEPT !.n = n, !.calls = @ + 1,
                                !.bulks = @ + (IF r.bulk THEN 1 ELSE 0),
                                !.fails = @ + (IF r.bulk /\ bulk.tag = "err" THEN 1 ELSE 0),
                                !.exact = IF at = "exact" THEN @ ELSE 0,
                                !.got = got,
                                !.steps = IF at = "exact" THEN @ + 1 ELSE 0,
                                !.res = res]
        /\ t_wire' = IF r.bulk /\ bulk.tag = "ok" THEN Append(t_wire, bulk.v) ELSE t_wire
        /\ t_acc' = IF r.out.tag = "ok" THEN t_acc \o r.out.v ELSE t_acc
        /\ t_out' = r.out
        /\ t_pc' = CASE r.out.tag = "panic" -> "aborted"
                     [] at = "exact" /\ res = "none" -> "exact"
                     [] OTHER -> "read"

\* a call of Calculator::read
CallRead ==
    /\ t_pc = "read" /\ t_in.calls < MaxReads
    /\ \E n \in 0..MaxRequest, c \in -1..MaxChunk :
          /\ Transferred + c <= MaxStream
          /\ ReadCall(n, c, "read")
    /\ UNCHANGED <<max_raw_packet_size, alive, op, stage, pc, packets, depth, bytes,
                   ret, variables, result, log, vlog, dev, ops>>

\* a call of read_exact, as RawPackets::receive makes them (raw.rs:27-34), up to
\* its first read: std's read_exact calls read with what is left of its buffer
\* until the buffer is full
CallReadExact ==
    /\ t_pc = "read" /\ t_in.calls < MaxReads
    /\ \E n \in 1..MaxRequest :
          /\ t_in' = [t_in EXCEPT !.exact = n, !.got = <<>>, !.steps = 0, !.res = "none"]
          /\ t_pc' = "exact"
    /\ UNCHANGED <<buffer, t_wire, t_acc, t_out>>
    /\ UNCHANGED <<max_raw_packet_size, alive, op, stage, pc, packets, depth, bytes,
                   ret, variables, result, log, vlog, dev, ops>>

\* the next read of the read_exact in progress
ReadExactStep ==
    /\ t_pc = "exact"
    /\ t_in.calls < MaxReads
    /\ \E c \in -1..MaxChunk :
          /\ Transferred + c <= MaxStream
          /\ ReadCall(t_in.exact - Len(t_in.got), c, "exact")
    /\ UNCHANGED <<max_raw_packet_size, alive, op, stage, pc, packets, depth, bytes,
                   ret, variables, result, log, vlog, dev, ops>>

ReadNext == CallRead \/ CallReadExact \/ ReadExactStep

ReadSpec == ReadInit /\ [][ReadNext]_vars

----------------------------------------------------------------------------
(* C30.  Calculator::read calls read_bulk only when the read-ahead buffer is *)
(* empty: while the buffer holds bytes of an earlier transfer, they are      *)
(* handed out before anything more is fetched from the transport.            *)

C30_BulkOnlyWhenEmpty ==
    [][t_in'.bulks # t_in.bulks => buffer = <<>>]_vars

\* one transfer of 3 bytes served three reads: the second and third came from
\* the buffer
C30_Witness ==
    /\ t_pc = "read" /\ t_in.f = "read" /\ t_in.calls = 3 /\ t_in.bulks = 1
    /\ t_wire = <<<<1, 2, 3>>>>
    /\ t_acc = <<1, 2, 3>>
    /\ buffer = <<>>

----------------------------------------------------------------------------
(* C31.  No call of Calculator::read returns more than max_raw_packet_size   *)
(* bytes; a read_exact of more bytes than that, when no transfer fails, is   *)
(* not aborted and ends with Ok after at least two reads whose results,      *)
(* concatenated, are the bytes it asked for.                                 *)

\* the last n of the bytes returned so far
LastReturned(n) == SubSeq(t_acc, Len(t_acc) - n + 1, Len(t_acc))

C31_ReadAtMostMax ==
    (t_in.f = "read" /\ t_in.calls > 0 /\ t_out.tag = "ok") =>
        Len(t_out.v) <= max_raw_packet_size

C31_ReadExactSplit ==
    (t_in.f = "read" /\ t_in.exact > max_raw_packet_size /\ t_in.steps > 0
        /\ t_in.fails = 0) =>
        /\ t_in.res \in {"none", "ok"}
        /\ t_in.res = "ok" =>
              /\ t_in.steps >= 2
              /\ Len(t_in.got) = t_in.exact
              /\ t_in.got = LastReturned(t_in.exact)

C31_SplitReads == C31_ReadAtMostMax /\ C31_ReadExactSplit

----------------------------------------------------------------------------
(* C32.  Whatever the sizes of the transfers (each of at least 1 byte) and   *)
(* of the requests, when no transfer fails every call of Calculator::read    *)
(* returns Ok (none fails or is aborted because the transfer is shorter than *)
(* the request) and the bytes returned so far, concatenated, are a prefix of *)
(* the transfers, concatenated.                                              *)

IsPrefix(a, b) == Len(a) <= Len(b) /\ a = SubSeq(b, 1, Len(a))

\* the claim's case: no empty transfer, no failed transfer
ChunksArrived == t_in.fails = 0 /\ \A i \in 1..Len(t_wire) : Len(t_wire[i]) >= 1

C32_Prefix ==
    (t_in.f = "read" /\ t_in.calls > 0 /\ ChunksArrived) => IsPrefix(t_acc, Flatten(t_wire))

C32_PrefixNeverFails ==
    /\ C32_Prefix
    /\ (t_in.f = "read" /\ t_in.calls > 0 /\ ChunksArrived) => t_out.tag = "ok"

----------------------------------------------------------------------------
(* C33.  While VirtualPacket::receive_bytes receives a virtual packet, every *)
(* raw data packet read (VirtualData or FinalVirtData) is followed at once   *)
(* by one VirtualDataAcknowledge(0xE000) sent, before anything else is read; *)
(* no acknowledgment is sent otherwise, and when the virtual packet has been *)
(* received in n raw data packets exactly n acknowledgments have been sent.  *)

DataRead(l) == Len(SelectSeq(l, IsDataRx))
AcksSent(l) == Len(SelectSeq(l, LAMBDA e : IsTx(e, "VirtualDataAcknowledge")))

C33_AckPerDataPacket ==
    ReceiveLog =>
        /\ \A k \in 1..Len(log) :
              /\ IsDataRx(log[k]) =>
                    /\ k < Len(log) =>
                          log[k + 1] = Tx(VirtualDataAcknowledge(AckSentinel))
                    /\ k = Len(log) => pc = "idle" /\ result = Err(IoError)
              /\ log[k].d = "tx" =>
                    /\ log[k] = Tx(VirtualDataAcknowledge(AckSentinel))
                    /\ k > 1 /\ IsDataRx(log[k - 1])
        /\ pc = "received" =>
              /\ AcksSent(log) = DataRead(log)
              /\ Len(log) = 2 * DataRead(log)
              /\ \A k \in 1..DataRead(log) - 1 : IsRx(log[2 * k - 1], "VirtualData")
              /\ IsRx(log[Len(log) - 1], "FinalVirtData")

\* a virtual packet received in three raw data packets, three acknowledgments sent
C33_Witness ==
    /\ ReceiveLog /\ pc = "received"
    /\ DataRead(log) = 3 /\ AcksSent(log) = 3
    /\ IsRx(log[1], "VirtualData") /\ IsRx(log[3], "VirtualData")
    /\ IsRx(log[5], "FinalVirtData")

----------------------------------------------------------------------------
(* C34.  Once Calculator::new has returned Ok, the session's max raw packet  *)
(* size is between 1 and 1018, whatever size the calculator advertised       *)
(* (0 included).                                                             *)

C34_MaxInRange ==
    alive => max_raw_packet_size \in 1..ClampCeiling
====
